---- MODULE Spec2Model ----
(***************************************************************************)
(* State-machine model of the production A2A agent with AP2 payments       *)
(* (agent_production.py over database.py, models.py and config.py).        *)
(*                                                                         *)
(* The store is the three tables of database.py.  Every JSON-RPC handler   *)
(* of agent_production.py is an `async def` that never awaits between its  *)
(* store calls, so under the single uvicorn event loop started by          *)
(* __main__ a handler runs to completion: Spec has one action per handler  *)
(* and keeps the answer of the latest request in `last`.  SpecStore is the *)
(* same machine restricted to the requests that write to the tables,       *)
(* without the answers.  SpecConc runs process_payment one store call at a *)
(* time, as several server processes over one database do.                 *)
(* SpecFault is SpecConc over a database whose commits can fail.           *)
(*                                                                         *)
(* PRICING is the module-level catalog of config.py: the handlers read it  *)
(* on every request, and a deployment with an edited config.py replaces it *)
(* while the database file stays (SpecCatalog).                            *)
(*                                                                         *)
(* paidCarts and executedMandates are history: the carts for which         *)
(* processPayment has answered success, and, kept by Spec with the         *)
(* answers, the payment mandates under which submit_task has run           *)
(* process_task.                                                           *)
(*                                                                         *)
(* Left out of the records: the timestamp columns of tasks and payments    *)
(* (created_at, started_at, completed_at, processed_at), the JSON blobs    *)
(* beyond the cart total, and the log calls.                               *)
(***************************************************************************)
EXTENDS Integers, Sequences, FiniteSets, TLC

VARIABLES tasks, carts, payments, now, last, paidCarts, executedMandates, reqs, PRICING, ap2, limiter

vars == <<tasks, carts, payments, now, last, paidCarts, executedMandates, reqs, PRICING, ap2, limiter>>

(***************************************************************************)
(* Bounds                                                                  *)
(***************************************************************************)
MaxTasks == 2
MaxCarts == 1
MaxPayments == 2
MaxTime == 2
NumWorkers == 2

TaskIds == 1..MaxTasks
CartIds == 1..(MaxCarts + 1)
PaymentIds == 1..MaxPayments
Workers == 1..NumWorkers

\* Python None of an optional id parameter or of a nullable id column.
NoId == 0
\* Python None of a nullable text column.
Null == "null"

(***************************************************************************)
(* config.py                                                               *)
(***************************************************************************)
\* The PRICING literal of config.py, the catalog of the first deployment.
PRICING_config ==
  [s \in {"business-analysis", "market-research", "strategy-planning", "quick-consult"} |->
     CASE s = "business-analysis" -> [price |-> 50, description |-> "Comprehensive business analysis"]
       [] s = "market-research" -> [price |-> 75, description |-> "Market research and competitive analysis"]
       [] s = "strategy-planning" -> [price |-> 100, description |-> "Strategic business planning"]
       [] s = "quick-consult" -> [price |-> 25, description |-> "Quick consultation (15 min equivalent)"]]

default_currency == "USD"

cart_expiry_hours == 1

\* str(price) of a catalog price, as written into the cart's PaymentCurrencyAmount.
py_str(p) ==
  CASE p = 50 -> "50.0" [] p = 75 -> "75.0" [] p = 100 -> "100.0" [] p = 25 -> "25.0"
    [] p = 30 -> "30.0"

\* float(value) of an amount string read back from the cart.
py_float(s) ==
  CASE s = "50.0" -> 50 [] s = "75.0" -> 75 [] s = "100.0" -> 100 [] s = "25.0" -> 25
    [] s = "30.0" -> 30

(***************************************************************************)
(* Inputs                                                                  *)
(***************************************************************************)
SkillInputs == {"quick-consult", "invalid-skill"}

\* message.parts of a request: an image part without text, then a text part.
MessageInputs ==
  { <<[type |-> "image", text |-> Null], [type |-> "text", text |-> "hi"]>> }

\* The prices an edited config.py gives a skill.
PriceInputs == {25, 30}

\* The generation engine: text in, text out, may fail.
GenOutcomes == {"text", "GenerationError"}

(***************************************************************************)
(* models.py                                                               *)
(***************************************************************************)
\* validate_skill that takes every skill id.
validate_skill_any(v) == TRUE

validate_skill(v) == v \in DOMAIN PRICING

\* validate_taskDescription without the minimum length.
validate_taskDescription_any(v) == v # Null /\ Len(v) <= 1000

\* CartMandateParams.taskDescription: a required str of 1 to 1000 characters.
validate_taskDescription(v) == v # Null /\ Len(v) >= 1 /\ Len(v) <= 1000

RECURSIVE text_of(_)
\* The user_message loop of submit_task / send_message: the text parts, concatenated.
text_of(parts) ==
  IF parts = <<>> THEN ""
  ELSE LET p == Head(parts)
       IN (IF p.type = "text" /\ p.text # Null /\ p.text # "" THEN p.text ELSE "") \o text_of(Tail(parts))

(***************************************************************************)
(* database.py: repositories over the three tables.  A table is a function *)
(* from the stored primary keys to rows.                                   *)
(***************************************************************************)
TaskRow(id, skill_id, status, user_message, price, payment_status, cart_id, payment_mandate_id) ==
  [id |-> id, skill_id |-> skill_id, status |-> status, user_message |-> user_message,
   result |-> Null, price |-> price, currency |-> default_currency,
   payment_status |-> payment_status, payment_mandate_id |-> payment_mandate_id,
   cart_id |-> cart_id, error |-> Null]

\* A create whose commit accepts a primary key that is already stored.
TaskRepository_create_raises_never(ts, task_data) == FALSE

\* TaskRepository.create; the commit raises IntegrityError on a stored primary key.
TaskRepository_create_raises(ts, task_data) == task_data.id \in DOMAIN ts

TaskRepository_create(ts, task_data) == ts @@ (task_data.id :> task_data)

\* update that drops the changes.
TaskRepository_update_noop(ts, task_id, updates) == ts

\* update that also prices the row again from the catalog.
TaskRepository_update_reprice(ts, task_id, updates) ==
  IF task_id \in DOMAIN ts
  THEN [ts EXCEPT ![task_id] =
          [f \in DOMAIN ts[task_id] |->
             IF f \in DOMAIN updates THEN updates[f]
             ELSE IF f = "price" THEN PRICING[ts[task_id].skill_id].price
             ELSE ts[task_id][f]]]
  ELSE ts

\* TaskRepository.update: setattr of every key of updates on the row, nothing when the row is missing.
TaskRepository_update(ts, task_id, updates) ==
  IF task_id \in DOMAIN ts
  THEN [ts EXCEPT ![task_id] =
          [f \in DOMAIN ts[task_id] |-> IF f \in DOMAIN updates THEN updates[f] ELSE ts[task_id][f]]]
  ELSE ts

\* CartMandateRepository.create: the row is CartMandateDB(**cart_data); a column the
\* caller leaves out takes its default (is_used: False).
CartMandateRepository_create(cs, cart_data) ==
  cs @@ (cart_data.id :>
           IF "is_used" \in DOMAIN cart_data THEN cart_data ELSE cart_data @@ [is_used |-> FALSE])

\* mark_used that never writes the flag.
CartMandateRepository_mark_used_noop(cs, cart_id) == cs

\* mark_used that flips the flag of the row.
CartMandateRepository_mark_used_toggle(cs, cart_id) ==
  IF cart_id \in DOMAIN cs THEN [cs EXCEPT ![cart_id].is_used = ~cs[cart_id].is_used] ELSE cs

\* CartMandateRepository.mark_used: sets is_used on the row when it exists.
CartMandateRepository_mark_used(cs, cart_id) ==
  IF cart_id \in DOMAIN cs THEN [cs EXCEPT ![cart_id].is_used = TRUE] ELSE cs

\* The bool returned by mark_used.
mark_used_result(cs, cart_id) == cart_id \in DOMAIN cs

PaymentMandateRepository_create(ps, payment_data) == ps @@ (payment_data.id :> payment_data)

(***************************************************************************)
(* agent_production.py                                                     *)
(***************************************************************************)
\* uuid.uuid4(): an id no row has yet.  Ids are opaque, so the least unused one stands for it.
uuid4(ids, table) == { i \in ids \ DOMAIN table : \A j \in ids \ DOMAIN table : i <= j }

\* The JSON-RPC answer and what the call did, as recorded in `last`.
Response(op, code, detail) ==
  [op |-> op, code |-> code, detail |-> detail,
   taskId |-> NoId, cartId |-> NoId, paymentMandateId |-> NoId, skillId |-> Null,
   status |-> Null, existed |-> FALSE, engine |-> FALSE, statuses |-> <<>>, next_steps |-> <<>>]

HTTPException(op, status_code, detail) == Response(op, status_code, detail)

\* The next_steps object of the payment_required answer of submit_task.
next_steps == [ap2_flow |-> ("1" :> "createIntentMandate" @@ "2" :> "createCartMandate" @@ "3" :> "processPayment")]

\* check_cart without the expiry check.
check_cart_no_expiry(cs, cart_id, t) ==
  IF cart_id \notin DOMAIN cs THEN [code |-> 404, detail |-> "Cart not found or expired"]
  ELSE IF cs[cart_id].is_used THEN [code |-> 400, detail |-> "Cart already used"]
  ELSE [code |-> 200, detail |-> "ok"]

\* check_cart whose expiry check takes the instant of expiry as expired.
check_cart_inclusive(cs, cart_id, t) ==
  IF cart_id \notin DOMAIN cs THEN [code |-> 404, detail |-> "Cart not found or expired"]
  ELSE IF cs[cart_id].is_used THEN [code |-> 400, detail |-> "Cart already used"]
  ELSE IF cs[cart_id].expires_at <= t THEN [code |-> 400, detail |-> "Cart expired"]
  ELSE [code |-> 200, detail |-> "ok"]

\* The three checks of process_payment on the cart row it read, at time t.
check_cart(cs, cart_id, t) ==
  IF cart_id \notin DOMAIN cs THEN [code |-> 404, detail |-> "Cart not found or expired"]
  ELSE IF cs[cart_id].is_used THEN [code |-> 400, detail |-> "Cart already used"]
  ELSE IF cs[cart_id].expires_at < t THEN [code |-> 400, detail |-> "Cart expired"]
  ELSE [code |-> 200, detail |-> "ok"]

\* payment_row that prices the payment from the catalog in force, not from the cart.
payment_row_catalog(payment_mandate_id, cart_id, cart_db) ==
  [id |-> payment_mandate_id, cart_id |-> cart_id,
   amount |-> PRICING[cart_db.skill_id].price, currency |-> default_currency,
   status |-> "authorized"]

\* The row process_payment hands to PaymentMandateRepository.create.
payment_row(payment_mandate_id, cart_id, cart_db) ==
  [id |-> payment_mandate_id, cart_id |-> cart_id,
   amount |-> py_float(cart_db.total_value), currency |-> cart_db.total_currency,
   status |-> "authorized"]

\* The row process_payment hands to TaskRepository.create.
payment_task_row(task_id, cart_id, payment_mandate_id, cart_db) ==
  TaskRow(task_id, cart_db.skill_id, "payment_authorized", Null,
          py_float(cart_db.total_value), "authorized_ap2", cart_id, payment_mandate_id)

\* cart_row priced from the catalog of the first deployment, not the one in force.
cart_row_first_catalog(cart_id, skillId, taskDescription, t) ==
  [id |-> cart_id, skill_id |-> skillId, task_description |-> taskDescription,
   total_value |-> py_str(PRICING_config[skillId].price), total_currency |-> default_currency,
   expires_at |-> t + cart_expiry_hours]

\* The row create_cart_mandate hands to CartMandateRepository.create.
cart_row(cart_id, skillId, taskDescription, t) ==
  [id |-> cart_id, skill_id |-> skillId, task_description |-> taskDescription,
   total_value |-> py_str(PRICING[skillId].price), total_currency |-> default_currency,
   expires_at |-> t + cart_expiry_hours]

\* payment_authorized that takes any supplied id, without looking the payment up.
payment_authorized_any(ps, payment_mandate_id) == payment_mandate_id # NoId

\* submit_task: the paymentMandateId names a stored payment whose status is authorized.
payment_authorized(ps, payment_mandate_id) ==
  /\ payment_mandate_id # NoId
  /\ payment_mandate_id \in DOMAIN ps
  /\ ps[payment_mandate_id].status = "authorized"

\* unpaid_task_row with the status of an accepted task.
unpaid_task_row_working(task_id, skill_id, user_message) ==
  TaskRow(task_id, skill_id, "working", user_message,
          PRICING[skill_id].price, "pending", NoId, NoId)

\* The row of the payment_required branch of submit_task.
unpaid_task_row(task_id, skill_id, user_message) ==
  TaskRow(task_id, skill_id, "payment_required", user_message,
          PRICING[skill_id].price, "pending", NoId, NoId)

\* The status of the task row after an update, <<>> when there is no such row.
stored_status(ts, task_id) == IF task_id \in DOMAIN ts THEN <<ts[task_id].status>> ELSE <<>>

\* process_task: working, the engine call, then completed with the result or
\* failed with the error; the error leaves as HTTPException(500).
process_task(ts, task_id, skill_id, user_message, gen) ==
  LET t1 == TaskRepository_update(ts, task_id, [status |-> "working"])
      t2 == IF gen = "text"
            THEN TaskRepository_update(t1, task_id, [status |-> "completed", result |-> gen])
            ELSE TaskRepository_update(t1, task_id, [status |-> "failed", error |-> gen])
  IN [tasks |-> t2,
      raised |-> gen # "text",
      status |-> IF gen = "text" THEN "completed" ELSE Null,
      statuses |-> stored_status(t1, task_id) \o stored_status(t2, task_id)]

(***************************************************************************)
(* The handlers.  A handler is a function of the tables, the clock and the *)
(* request: X_call gives the tables it leaves and its JSON-RPC answer.     *)
(***************************************************************************)
\* A server process that is not inside process_payment.
Idle == [pc |-> "idle", cartId |-> NoId, cart_db |-> <<>>, payment_mandate_id |-> NoId,
         task_id |-> NoId, code |-> 0, detail |-> Null]

\* The id uuid.uuid4() returns.
fresh(ids, table) == CHOOSE i \in uuid4(ids, table) : TRUE

\* The ids a caller can put in taskId: a stored one, or a new one.
TaskIdInputs == DOMAIN tasks \cup uuid4(TaskIds, tasks)

\* The ids a caller can put in paymentMandateId: a stored one, or one that is not stored.
PaymentIdInputs == DOMAIN payments \cup uuid4(PaymentIds, payments)

\* The skillId of a createIntentMandate request: a catalog skill, an unknown one, or none.
IntentInputs == SkillInputs \cup {Null}

create_intent_mandate_call(skillId) ==
  [resp |-> IF skillId # Null /\ ~validate_skill(skillId)
            THEN [HTTPException("createIntentMandate", 400, "Invalid skillId") EXCEPT !.skillId = skillId]
            ELSE [Response("createIntentMandate", 200, "ok") EXCEPT !.skillId = skillId]]

\* A run stores at most MaxCarts carts; CartIds has one id more, so uuid4 has a
\* cart id left in every state.
create_cart_mandate_bounded(cs, skillId) ==
  validate_skill(skillId) => Cardinality(DOMAIN cs) < MaxCarts

\* CartMandateParams(**params) raises a ValueError for a skill outside the catalog
\* and for a taskDescription that is missing, empty or too long; the handler
\* answers it with 400 before anything is stored.
create_cart_mandate_call(cs, t, skillId, taskDescription) ==
  IF ~validate_skill(skillId)
  THEN [carts |-> cs,
        resp |-> [HTTPException("createCartMandate", 400, "Invalid skillId") EXCEPT !.skillId = skillId]]
  ELSE IF ~validate_taskDescription(taskDescription)
  THEN [carts |-> cs,
        resp |-> [HTTPException("createCartMandate", 400, "Invalid taskDescription") EXCEPT
                     !.skillId = skillId]]
  ELSE LET cart_id == fresh(CartIds, cs)
       IN [carts |-> CartMandateRepository_create(cs, cart_row(cart_id, skillId, taskDescription, t)),
           resp |-> [Response("createCartMandate", 200, "ok") EXCEPT !.skillId = skillId, !.cartId = cart_id]]

\* The id spaces still have the payment and task ids that uuid4 needs.
process_payment_bounded(ts, cs, ps, t, cartId) ==
  check_cart(cs, cartId, t).code = 200 =>
    (uuid4(PaymentIds, ps) # {} /\ uuid4(TaskIds, ts) # {})

\* process_payment that retires the cart it refuses: a rejected cart that exists
\* is marked used.
process_payment_call_retire(ts, cs, ps, t, cartId) ==
  LET chk == check_cart(cs, cartId, t)
  IN IF chk.code # 200
     THEN [tasks |-> ts, carts |-> CartMandateRepository_mark_used(cs, cartId), payments |-> ps,
           resp |-> [HTTPException("processPayment", chk.code, chk.detail) EXCEPT !.cartId = cartId]]
     ELSE LET payment_mandate_id == fresh(PaymentIds, ps)
              task_id == fresh(TaskIds, ts)
              cart_db == cs[cartId]
          IN [payments |-> PaymentMandateRepository_create(ps,
                              payment_row(payment_mandate_id, cartId, cart_db)),
              carts |-> CartMandateRepository_mark_used(cs, cartId),
              tasks |-> TaskRepository_create(ts,
                              payment_task_row(task_id, cartId, payment_mandate_id, cart_db)),
              resp |-> [Response("processPayment", 200, "ok") EXCEPT
                           !.cartId = cartId, !.taskId = task_id,
                           !.paymentMandateId = payment_mandate_id,
                           !.skillId = cart_db.skill_id,
                           !.status = "payment_authorized"]]

process_payment_call(ts, cs, ps, t, cartId) ==
  LET chk == check_cart(cs, cartId, t)
  IN IF chk.code # 200
     THEN [tasks |-> ts, carts |-> cs, payments |-> ps,
           resp |-> [HTTPException("processPayment", chk.code, chk.detail) EXCEPT !.cartId = cartId]]
     ELSE LET payment_mandate_id == fresh(PaymentIds, ps)
              task_id == fresh(TaskIds, ts)
              cart_db == cs[cartId]
          IN [payments |-> PaymentMandateRepository_create(ps,
                              payment_row(payment_mandate_id, cartId, cart_db)),
              carts |-> CartMandateRepository_mark_used(cs, cartId),
              tasks |-> TaskRepository_create(ts,
                              payment_task_row(task_id, cartId, payment_mandate_id, cart_db)),
              resp |-> [Response("processPayment", 200, "ok") EXCEPT
                           !.cartId = cartId, !.taskId = task_id,
                           !.paymentMandateId = payment_mandate_id,
                           !.skillId = cart_db.skill_id,
                           !.status = "payment_authorized"]]

\* The repository calls of process_payment, each of which commits on its own and
\* can raise (database.py 95, 141, 156).
StoreFaults == {"payment_repo.create", "cart_repo.mark_used", "task_repo.create"}

\* "none": every commit of the request succeeds.
StoreOutcomes == StoreFaults \cup {"none"}

\* process_payment on a database where the repository call `fault` raises: the
\* handler leaves through `except Exception` with HTTPException(500) and what
\* the earlier repository calls committed stays stored.
process_payment_raising(ts, cs, ps, t, cartId, fault) ==
  LET chk == check_cart(cs, cartId, t)
      done == process_payment_call(ts, cs, ps, t, cartId)
      failed == [HTTPException("processPayment", 500, "Payment processing failed") EXCEPT
                    !.cartId = cartId]
  IN IF chk.code # 200 \/ fault = "none" THEN done
     ELSE IF fault = "payment_repo.create"
     THEN [tasks |-> ts, carts |-> cs, payments |-> ps, resp |-> failed]
     ELSE IF fault = "cart_repo.mark_used"
     THEN [tasks |-> ts, carts |-> cs, payments |-> done.payments, resp |-> failed]
     ELSE [tasks |-> ts, carts |-> done.carts, payments |-> done.payments, resp |-> failed]

\* The id space still has the task id that uuid4 needs when taskId is omitted.
submit_task_bounded(ts, taskId, skillId) ==
  (validate_skill(skillId) /\ taskId = NoId) => uuid4(TaskIds, ts) # {}

\* gen is what the generation engine does if process_task calls it.
submit_task_call(ts, ps, taskId, skillId, parts, paymentMandateId, gen) ==
  IF ~validate_skill(skillId)
  THEN [tasks |-> ts, executed |-> FALSE,
        resp |-> [HTTPException("submitTask", 400, "Invalid skillId") EXCEPT
                     !.skillId = skillId, !.taskId = taskId, !.paymentMandateId = paymentMandateId]]
  ELSE LET task_id == IF taskId # NoId THEN taskId ELSE fresh(TaskIds, ts)
           user_message == text_of(parts)
           req == [Response("submitTask", 200, "ok") EXCEPT
                      !.skillId = skillId, !.taskId = task_id,
                      !.paymentMandateId = paymentMandateId,
                      !.existed = task_id \in DOMAIN ts]
       IN IF payment_authorized(ps, paymentMandateId)
          THEN LET r == process_task(ts, task_id, skillId, user_message, gen)
               IN [tasks |-> r.tasks, executed |-> TRUE,
                   resp |-> IF r.raised
                            THEN [req EXCEPT !.code = 500, !.detail = "Task submission failed",
                                             !.engine = TRUE, !.statuses = r.statuses]
                            ELSE [req EXCEPT !.status = r.status,
                                             !.engine = TRUE, !.statuses = r.statuses]]
          ELSE IF TaskRepository_create_raises(ts, unpaid_task_row(task_id, skillId, user_message))
          THEN [tasks |-> ts, executed |-> FALSE,
                resp |-> [req EXCEPT !.code = 500, !.detail = "Task submission failed"]]
          ELSE [tasks |-> TaskRepository_create(ts, unpaid_task_row(task_id, skillId, user_message)),
                executed |-> FALSE,
                resp |-> [req EXCEPT !.status = "payment_required", !.next_steps = next_steps]]

\* get_task_status that answers for an id without a row as for a task not yet started.
get_task_status_call_pending(ts, taskId) ==
  [resp |-> [Response("getTaskStatus", 200, "ok") EXCEPT
                !.taskId = taskId, !.existed = taskId \in DOMAIN ts,
                !.status = IF taskId \in DOMAIN ts THEN ts[taskId].status ELSE "pending"]]

get_task_status_call(ts, taskId) ==
  [resp |-> IF taskId \notin DOMAIN ts
            THEN [HTTPException("getTaskStatus", 404, "Task not found") EXCEPT !.taskId = taskId]
            ELSE [Response("getTaskStatus", 200, "ok") EXCEPT
                     !.taskId = taskId, !.status = ts[taskId].status, !.existed = TRUE]]

send_message_call(ts, taskId, parts, gen) ==
  [resp |-> IF taskId \notin DOMAIN ts
            THEN [HTTPException("sendMessage", 404, "Task not found") EXCEPT !.taskId = taskId]
            ELSE IF gen # "text"
            THEN [HTTPException("sendMessage", 500, "Failed to send message") EXCEPT
                     !.taskId = taskId, !.existed = TRUE, !.engine = TRUE]
            ELSE [Response("sendMessage", 200, "ok") EXCEPT
                     !.taskId = taskId, !.status = "working", !.existed = TRUE, !.engine = TRUE]]

(***************************************************************************)
(* The three tables after a handler.  Every handler is given the Session   *)
(* `db` and so can reach every table; X_db gives all three as X leaves     *)
(* them, the tables X never names being handed through.                    *)
(***************************************************************************)
\* create_intent_mandate_db that keeps the intent: a task row for the skill is
\* stored under a new id.
create_intent_mandate_db_stored(ts, cs, ps, skillId) ==
  LET r == create_intent_mandate_call(skillId)
      keep == r.resp.code = 200 /\ skillId # Null /\ uuid4(TaskIds, ts) # {}
  IN [tasks |-> IF keep
                THEN TaskRepository_create(ts, unpaid_task_row(fresh(TaskIds, ts), skillId, Null))
                ELSE ts,
      carts |-> cs, payments |-> ps, resp |-> r.resp]

\* create_intent_mandate is not given the Session: the tables are out of its reach.
create_intent_mandate_db(ts, cs, ps, skillId) ==
  [tasks |-> ts, carts |-> cs, payments |-> ps, resp |-> create_intent_mandate_call(skillId).resp]

create_cart_mandate_db(ts, cs, ps, t, skillId, taskDescription) ==
  LET r == create_cart_mandate_call(cs, t, skillId, taskDescription)
  IN [tasks |-> ts, carts |-> r.carts, payments |-> ps, resp |-> r.resp]

\* submit_task_db whose failed execution takes the payment back: the mandate
\* is deleted and its cart is free again.
submit_task_db_rollback(ts, cs, ps, taskId, skillId, parts, paymentMandateId, gen) ==
  LET r == submit_task_call(ts, ps, taskId, skillId, parts, paymentMandateId, gen)
      undo == r.executed /\ r.resp.code = 500
  IN [tasks |-> r.tasks,
      carts |-> IF undo THEN [cs EXCEPT ![ps[paymentMandateId].cart_id].is_used = FALSE] ELSE cs,
      payments |-> IF undo THEN [p \in DOMAIN ps \ {paymentMandateId} |-> ps[p]] ELSE ps,
      executed |-> r.executed, resp |-> r.resp]

\* submit_task_db that refuses a payment reference it cannot resolve: 404, nothing written.
submit_task_db_strict(ts, cs, ps, taskId, skillId, parts, paymentMandateId, gen) ==
  LET r == submit_task_call(ts, ps, taskId, skillId, parts, paymentMandateId, gen)
  IN IF paymentMandateId # NoId /\ ~payment_authorized(ps, paymentMandateId)
     THEN [tasks |-> ts, carts |-> cs, payments |-> ps, executed |-> FALSE,
           resp |-> [HTTPException("submitTask", 404, "Payment mandate not found") EXCEPT
                        !.skillId = skillId, !.taskId = taskId,
                        !.paymentMandateId = paymentMandateId]]
     ELSE [tasks |-> r.tasks, carts |-> cs, payments |-> ps,
           executed |-> r.executed, resp |-> r.resp]

\* submit_task_db that spends the mandate: after an execution under it the
\* mandate is stored as consumed.
submit_task_db_consume(ts, cs, ps, taskId, skillId, parts, paymentMandateId, gen) ==
  LET r == submit_task_call(ts, ps, taskId, skillId, parts, paymentMandateId, gen)
  IN [tasks |-> r.tasks, carts |-> cs,
      payments |-> IF r.executed THEN [ps EXCEPT ![paymentMandateId].status = "consumed"] ELSE ps,
      executed |-> r.executed, resp |-> r.resp]

submit_task_db(ts, cs, ps, taskId, skillId, parts, paymentMandateId, gen) ==
  LET r == submit_task_call(ts, ps, taskId, skillId, parts, paymentMandateId, gen)
  IN [tasks |-> r.tasks, carts |-> cs, payments |-> ps, executed |-> r.executed, resp |-> r.resp]

get_task_status_db(ts, cs, ps, taskId) ==
  [tasks |-> ts, carts |-> cs, payments |-> ps, resp |-> get_task_status_call(ts, taskId).resp]

\* send_message_db that stores the status it answers: the task becomes working.
send_message_db_working(ts, cs, ps, taskId, parts, gen) ==
  LET r == send_message_call(ts, taskId, parts, gen)
  IN [tasks |-> IF r.resp.code = 200 THEN TaskRepository_update(ts, taskId, [status |-> "working"])
                ELSE ts,
      carts |-> cs, payments |-> ps, resp |-> r.resp]

send_message_db(ts, cs, ps, taskId, parts, gen) ==
  [tasks |-> ts, carts |-> cs, payments |-> ps,
   resp |-> send_message_call(ts, taskId, parts, gen).resp]

(***************************************************************************)
(* The in-memory variant, agent_ap2.py: its module-level dicts tasks,      *)
(* cart_mandates and payment_mandates, the answer of its last call, and    *)
(* in `inbox` a request that was sent to it and has not arrived yet.       *)
(***************************************************************************)
ap2_PRICING == PRICING_config

\* PRICING.keys(): the keys in the order of the dict literal.
ap2_PRICING_keys == <<"business-analysis", "market-research", "strategy-planning", "quick-consult">>

\* s[:n] of a str.
py_slice(s, n) == IF Len(s) <= n THEN s ELSE SubSeq(s, 1, n)

\* sub in s, for two str.
py_in(sub, s) == \E i \in 1..(Len(s) - Len(sub) + 1) : SubSeq(s, i, i + Len(sub) - 1) = sub

\* f"{v}" of an optional str.
py_format(v) == IF v = Null THEN "None" ELSE v

ap2_Init ==
  [tasks |-> <<>>, cart_mandates |-> <<>>, payment_mandates |-> <<>>,
   last |-> [op |-> "init", success |-> TRUE, error |-> Null],
   inbox |-> <<>>]

\* The answer of the variant says success: true; a request whose handler raised
\* has no result.
ap2_succeeded(answer) == "success" \in DOMAIN answer /\ answer.success

\* A run stores at most MaxCarts carts in the dict of the variant.
ap2_create_cart_mandate_bounded(a, skillId) ==
  skillId \in DOMAIN ap2_PRICING => Cardinality(DOMAIN a.cart_mandates) < MaxCarts

\* create_cart_mandate of agent_ap2.py: the skill is looked up in PRICING, the
\* cart is stored with the label of its display item, its total and its expiry.
\* The cart has no field for the skill: the skill is part of the label.
\* taskDescription is what params.get("taskDescription", "") returns: the text of
\* the request, "" for a request without the key, Null for a JSON null, on which
\* the slice task_description[:50] of the label raises a TypeError before
\* anything is stored (the server answers 500).
ap2_create_cart_mandate(a, t, skillId, taskDescription) ==
  IF skillId \notin DOMAIN ap2_PRICING
  THEN [a EXCEPT !.last = [op |-> "createCartMandate", success |-> FALSE,
                           error |-> "Unknown service: " \o py_format(skillId)]]
  ELSE IF taskDescription = Null
  THEN [a EXCEPT !.last = [op |-> "createCartMandate", raised |-> "TypeError"]]
  ELSE LET cart_id == fresh(CartIds, a.cart_mandates)
       IN [a EXCEPT
             !.cart_mandates = a.cart_mandates @@
                (cart_id :> [id |-> cart_id,
                             label |-> skillId \o " - " \o py_slice(taskDescription, 50),
                             total_value |-> py_str(ap2_PRICING[skillId].price),
                             cart_expiry |-> t + 1]),
             !.last = [op |-> "createCartMandate", success |-> TRUE, error |-> Null]]

\* Lines 300-306: the skill of a cart is the first key of PRICING that occurs
\* anywhere in the label of its display item, None when no key occurs in it.
ap2_skill_of(label) ==
  LET found == { i \in DOMAIN ap2_PRICING_keys : py_in(ap2_PRICING_keys[i], label) }
  IN IF found = {} THEN Null
     ELSE ap2_PRICING_keys[CHOOSE i \in found : \A j \in found : i <= j]

ap2_process_payment_bounded(a, cartId) ==
  cartId \in DOMAIN a.cart_mandates =>
    (uuid4(PaymentIds, a.payment_mandates) # {} /\ uuid4(TaskIds, a.tasks) # {})

\* process_payment of agent_ap2.py: the one check is that the cart is in
\* cart_mandates; the cart carries no used flag and its expiry is not read.
\* The payment mandate is stored before the skill is read back from the label.
ap2_process_payment(a, cartId) ==
  IF cartId \notin DOMAIN a.cart_mandates
  THEN [a EXCEPT !.last = [op |-> "processPayment", success |-> FALSE,
                           error |-> "Cart not found or expired"]]
  ELSE LET cart_mandate == a.cart_mandates[cartId]
           payment_mandate_id == fresh(PaymentIds, a.payment_mandates)
           task_id == fresh(TaskIds, a.tasks)
           skill_id == ap2_skill_of(cart_mandate.label)
           stored == a.payment_mandates @@
                       (payment_mandate_id :> [id |-> payment_mandate_id, cart_id |-> cartId,
                                               total_value |-> cart_mandate.total_value])
       IN IF skill_id = Null
          THEN [a EXCEPT
                  !.payment_mandates = stored,
                  !.last = [op |-> "processPayment", success |-> FALSE,
                            error |-> "Could not determine service type from cart"]]
          ELSE [a EXCEPT
                  !.payment_mandates = stored,
                  !.tasks = a.tasks @@
                     (task_id :> [skillId |-> skill_id, status |-> "payment_authorized",
                                  cartId |-> cartId, paymentMandateId |-> payment_mandate_id,
                                  price |-> py_float(cart_mandate.total_value),
                                  currency |-> "USD"]),
                  !.last = [op |-> "processPayment", success |-> TRUE, error |-> Null,
                            status |-> "payment_authorized"]]

\* The truth value of an optional str: None and the empty str are false.
py_truth(v) == v # Null /\ v # ""

\* create_intent_mandate of agent_ap2.py: a skill that is given, and is not the
\* empty str, must be in PRICING; nothing is stored.
ap2_create_intent_mandate(a, skillId) ==
  IF py_truth(skillId) /\ skillId \notin DOMAIN ap2_PRICING
  THEN [a EXCEPT !.last = [op |-> "createIntentMandate", success |-> FALSE,
                           error |-> "Unknown service: " \o py_format(skillId)]]
  ELSE [a EXCEPT !.last = [op |-> "createIntentMandate", success |-> TRUE, error |-> Null]]

\* dict[key] = value for each key of updates, on the dict of one task.
ap2_set(task, updates) == updates @@ task

\* process_task of agent_ap2.py: the engine is called; its text is stored with
\* status completed, its exception with status failed.
ap2_process_task(a, ts, task_id, skill_id, user_message, gen) ==
  IF gen = "text"
  THEN [a EXCEPT
          !.tasks = [ts EXCEPT ![task_id] =
                       ap2_set(ts[task_id], [status |-> "completed", result |-> gen])],
          !.last = [op |-> "submitTask", status |-> "completed", text |-> gen,
                    service |-> skill_id, price |-> ap2_PRICING[skill_id].price]]
  ELSE [a EXCEPT
          !.tasks = [ts EXCEPT ![task_id] =
                       ap2_set(ts[task_id], [status |-> "failed", error |-> gen])],
          !.last = [op |-> "submitTask", status |-> "failed",
                    text |-> "Error processing request: " \o gen]]

\* The text loop of submit_task and send_message of agent_ap2.py:
\* user_message += part.get("text", "") for every part of type text.  A text
\* part whose text is None raises TypeError.
ap2_raises_TypeError(parts) == \E i \in DOMAIN parts : parts[i].type = "text" /\ parts[i].text = Null

RECURSIVE ap2_user_message(_)
ap2_user_message(parts) ==
  IF parts = <<>> THEN ""
  ELSE (IF Head(parts).type = "text" THEN Head(parts).text ELSE "") \o ap2_user_message(Tail(parts))

\* The next_steps object of the payment_required answer.
ap2_next_steps ==
  [ap2_flow |-> ("1" :> "createIntentMandate" @@ "2" :> "createCartMandate" @@ "3" :> "processPayment")]

ap2_submit_task_bounded(a, taskId, skillId) ==
  (skillId \in DOMAIN ap2_PRICING /\ taskId = NoId) => uuid4(TaskIds, a.tasks) # {}

\* submit_task of agent_ap2.py: after the skill, the text of the parts is
\* collected (an exception of the loop ends the request, nothing is stored);
\* the payment is authorized when paymentMandateId
\* is a key of payment_mandates; a task id that tasks does not hold is stored,
\* as working under an authorized payment and as payment_required otherwise;
\* a stored task is left as it is.  Under an authorized payment the task is
\* processed at once, with the skill of the request.
ap2_submit_task(a, taskId, skillId, parts, paymentMandateId, gen) ==
  IF skillId \notin DOMAIN ap2_PRICING
  THEN [a EXCEPT !.last = [op |-> "submitTask", status |-> "failed",
                           text |-> "Unknown service: " \o py_format(skillId)]]
  ELSE IF ap2_raises_TypeError(parts)
  THEN [a EXCEPT !.last = [op |-> "submitTask", raised |-> "TypeError"]]
  ELSE LET task_id == IF taskId # NoId THEN taskId ELSE fresh(TaskIds, a.tasks)
           user_message == ap2_user_message(parts)
           authorized == paymentMandateId # NoId /\ paymentMandateId \in DOMAIN a.payment_mandates
           payment_status == IF authorized THEN "authorized_ap2" ELSE "payment_required"
           ts == IF task_id \in DOMAIN a.tasks THEN a.tasks
                 ELSE a.tasks @@
                        (task_id :> [skillId |-> skillId,
                                     status |-> IF authorized THEN "working" ELSE "payment_required",
                                     userMessage |-> user_message,
                                     price |-> ap2_PRICING[skillId].price, currency |-> "USD",
                                     paymentStatus |-> payment_status])
       IN IF authorized
          THEN ap2_process_task(a, ts, task_id, skillId, user_message, gen)
          ELSE [a EXCEPT !.tasks = ts,
                         !.last = [op |-> "submitTask", status |-> "payment_required",
                                   text |-> "Payment required: $" \o
                                            py_str(ap2_PRICING[skillId].price) \o
                                            " USD. Use AP2 flow or provide payment.",
                                   next_steps |-> ap2_next_steps]]

\* get_task_status of agent_ap2.py: the stored status, failed for an id that
\* tasks does not hold; the result is in the answer of a completed task.
ap2_get_task_status(a, taskId) ==
  IF taskId \notin DOMAIN a.tasks
  THEN [a EXCEPT !.last = [op |-> "getTaskStatus", status |-> "failed", text |-> "Task not found"]]
  ELSE LET task == a.tasks[taskId]
       IN [a EXCEPT !.last =
             [op |-> "getTaskStatus", status |-> task.status,
              text |-> IF task.status # "completed" THEN Null
                       ELSE IF "result" \in DOMAIN task THEN task.result ELSE "Task completed"]]

\* send_message of agent_ap2.py: failed for an id that tasks does not hold;
\* otherwise the text of the parts is collected, the engine is called and its
\* text answered with status working.  Nothing catches an exception of the
\* text loop or of the engine: the request ends with it.
ap2_send_message(a, taskId, parts, gen) ==
  IF taskId \notin DOMAIN a.tasks
  THEN [a EXCEPT !.last = [op |-> "sendMessage", status |-> "failed", text |-> Null]]
  ELSE IF ap2_raises_TypeError(parts)
  THEN [a EXCEPT !.last = [op |-> "sendMessage", raised |-> "TypeError"]]
  ELSE IF gen = "text"
  THEN [a EXCEPT !.last = [op |-> "sendMessage", status |-> "working", text |-> gen]]
  ELSE [a EXCEPT !.last = [op |-> "sendMessage", raised |-> gen]]

\* The keys of the handlers dict of handle_a2a_request.
ap2_handlers ==
  {"submitTask", "getTaskStatus", "sendMessage", "createIntentMandate", "createCartMandate",
   "processPayment"}

\* The answer to a method that is no key of handlers.
ap2_method_not_found(a, method) ==
  [a EXCEPT !.last = [op |-> method, error_code |-> -32601,
                      error_message |-> "Method not found: " \o method]]

\* handle_a2a_request of agent_ap2.py: the method of the request is looked up
\* in handlers and the handler is called with the params; gen is what the
\* generation engine does if the handler calls it, t is the clock.
ap2_handle_a2a_request(a, t, request, gen) ==
  LET method == request.method
  IN IF method \notin ap2_handlers THEN ap2_method_not_found(a, method)
     ELSE CASE method = "submitTask" ->
                 ap2_submit_task(a, request.taskId, request.skillId, request.parts,
                                 request.paymentMandateId, gen)
            [] method = "getTaskStatus" -> ap2_get_task_status(a, request.taskId)
            [] method = "sendMessage" -> ap2_send_message(a, request.taskId, request.parts, gen)
            [] method = "createIntentMandate" -> ap2_create_intent_mandate(a, request.skillId)
            [] method = "createCartMandate" ->
                 ap2_create_cart_mandate(a, t, request.skillId, request.taskDescription)
            [] method = "processPayment" -> ap2_process_payment(a, request.cartId)

(***************************************************************************)
(* RateLimitMiddleware: per client address the deque of the admission      *)
(* times still in the window.  `admitted` is the log of every admission,   *)
(* kept for the properties; `code` is the status of the last dispatch.     *)
(***************************************************************************)
\* The constructor's calls and period, scaled down.
calls == 2
period == 1

ClientAddresses == {"10.0.0.1", "10.0.0.2"}

RateLimitMiddleware_init ==
  [clients |-> [c \in ClientAddresses |-> <<>>],
   admitted |-> [c \in ClientAddresses |-> <<>>],
   code |-> 200, client |-> Null]

\* popleft of every entry at the head that is older than the window, but it
\* also drops the entry that is exactly `period` old.
clean_history_inclusive(client_history, t) ==
  SelectSeq(client_history, LAMBDA x : x > t - period)

\* while client_history and client_history[0] < now - period: popleft()
RECURSIVE clean_history(_, _)
clean_history(client_history, t) ==
  IF client_history # <<>> /\ Head(client_history) < t - period
  THEN clean_history(Tail(client_history), t)
  ELSE client_history

\* dispatch on the deque of one client at time t: the deque it leaves and the status.
dispatch_call(client_history, t) ==
  LET cleaned == clean_history(client_history, t)
  IN IF Len(cleaned) >= calls
     THEN [history |-> cleaned, code |-> 429]
     ELSE [history |-> Append(cleaned, t), code |-> 200]

(***************************************************************************)
(* The state machine.  X_step is what handler X does to the tables;        *)
(* action X is X_step with the answer kept in `last`.                      *)
(***************************************************************************)
Init ==
  /\ tasks = <<>>
  /\ carts = <<>>
  /\ payments = <<>>
  /\ now = 0
  /\ last = Response("init", 200, "ok")
  /\ paidCarts = {}
  /\ executedMandates = {}
  /\ reqs = [w \in Workers |-> Idle]
  /\ PRICING = PRICING_config
  /\ ap2 = ap2_Init
  /\ limiter = RateLimitMiddleware_init

\* datetime.utcnow() moves on between requests.
Tick ==
  /\ now < MaxTime
  /\ now' = now + 1
  /\ UNCHANGED <<tasks, carts, payments, last, paidCarts, executedMandates, reqs, PRICING, ap2, limiter>>

create_intent_mandate(skillId) ==
  /\ LET r == create_intent_mandate_db(tasks, carts, payments, skillId)
     IN /\ tasks' = r.tasks
        /\ carts' = r.carts
        /\ payments' = r.payments
        /\ last' = r.resp
  /\ UNCHANGED <<now, paidCarts, executedMandates, reqs, PRICING, ap2, limiter>>

create_cart_mandate_step(skillId, taskDescription) ==
  /\ create_cart_mandate_bounded(carts, skillId)
  /\ LET r == create_cart_mandate_db(tasks, carts, payments, now, skillId, taskDescription)
     IN /\ tasks' = r.tasks
        /\ carts' = r.carts
        /\ payments' = r.payments
  /\ UNCHANGED <<now, paidCarts, executedMandates, reqs, PRICING, ap2, limiter>>

create_cart_mandate(skillId, taskDescription) ==
  /\ create_cart_mandate_step(skillId, taskDescription)
  /\ last' = create_cart_mandate_call(carts, now, skillId, taskDescription).resp

\* One processPayment request run to its answer. `fault` is what the database
\* does to the request: "none", or the repository call whose commit raises, after
\* which the answer is 500 and the earlier commits of the request stay.
process_payment_step(cartId, fault) ==
  /\ process_payment_bounded(tasks, carts, payments, now, cartId)
  /\ LET r == process_payment_raising(tasks, carts, payments, now, cartId, fault)
     IN /\ tasks' = r.tasks
        /\ carts' = r.carts
        /\ payments' = r.payments
        /\ paidCarts' = IF r.resp.code = 200 THEN paidCarts \cup {cartId} ELSE paidCarts
  /\ UNCHANGED <<now, executedMandates, reqs, PRICING, ap2, limiter>>

process_payment(cartId, fault) ==
  /\ process_payment_step(cartId, fault)
  /\ last' = process_payment_raising(tasks, carts, payments, now, cartId, fault).resp

submit_task_step(taskId, skillId, parts, paymentMandateId, gen) ==
  /\ submit_task_bounded(tasks, taskId, skillId)
  /\ LET r == submit_task_db(tasks, carts, payments, taskId, skillId, parts, paymentMandateId, gen)
     IN /\ tasks' = r.tasks
        /\ carts' = r.carts
        /\ payments' = r.payments
  /\ UNCHANGED <<now, paidCarts, reqs, PRICING, ap2, limiter>>

submit_task(taskId, skillId, parts, paymentMandateId, gen) ==
  /\ submit_task_step(taskId, skillId, parts, paymentMandateId, gen)
  /\ LET r == submit_task_call(tasks, payments, taskId, skillId, parts, paymentMandateId, gen)
     IN /\ last' = r.resp
        /\ executedMandates' = IF r.executed THEN executedMandates \cup {paymentMandateId}
                               ELSE executedMandates

get_task_status(taskId) ==
  /\ LET r == get_task_status_db(tasks, carts, payments, taskId)
     IN /\ tasks' = r.tasks
        /\ carts' = r.carts
        /\ payments' = r.payments
        /\ last' = r.resp
  /\ UNCHANGED <<now, paidCarts, executedMandates, reqs, PRICING, ap2, limiter>>

send_message(taskId, parts, gen) ==
  /\ LET r == send_message_db(tasks, carts, payments, taskId, parts, gen)
     IN /\ tasks' = r.tasks
        /\ carts' = r.carts
        /\ payments' = r.payments
        /\ last' = r.resp
  /\ UNCHANGED <<now, paidCarts, executedMandates, reqs, PRICING, ap2, limiter>>

\* handle_a2a_request on a method that is not a key of handlers.
handle_unknown_method ==
  /\ last' = HTTPException("invalidMethod", 400, "Method not found")
  /\ UNCHANGED <<tasks, carts, payments, now, paidCarts, executedMandates, reqs, PRICING, ap2, limiter>>

\* Every request, with its answer in `last`.
Next ==
  \/ Tick
  \/ \E skillId \in IntentInputs : create_intent_mandate(skillId)
  \/ \E skillId \in SkillInputs : create_cart_mandate(skillId, "help")
  \/ \E cartId \in CartIds, fault \in StoreOutcomes : process_payment(cartId, fault)
  \/ \E taskId \in TaskIdInputs \cup {NoId}, skillId \in SkillInputs, parts \in MessageInputs,
        paymentMandateId \in PaymentIds \cup {NoId}, gen \in GenOutcomes :
        submit_task(taskId, skillId, parts, paymentMandateId, gen)
  \/ \E taskId \in TaskIdInputs : get_task_status(taskId)
  \/ \E taskId \in TaskIdInputs, parts \in MessageInputs, gen \in GenOutcomes :
        send_message(taskId, parts, gen)
  \/ handle_unknown_method

Spec == Init /\ [][Next]_vars

\* What the generation engine can do during a submit_task with this
\* paymentMandateId: it is called only under an authorized payment.
EngineOutcomes(ps, paymentMandateId) ==
  IF payment_authorized(ps, paymentMandateId) THEN GenOutcomes ELSE {"text"}

\* The requests that write to the tables, seen through the tables alone, on a
\* database whose commits succeed (the commits that fail are in Next and in
\* NextFault).  A request with a skill outside the catalog writes nothing, so the
\* skills here are those of the catalog.
NextStore ==
  \/ Tick
  \/ \E skillId \in SkillInputs \cap DOMAIN PRICING :
        create_cart_mandate_step(skillId, "help") /\ UNCHANGED last
  \/ \E cartId \in CartIds : process_payment_step(cartId, "none") /\ UNCHANGED last
  \/ \E taskId \in TaskIdInputs \cup {NoId}, skillId \in SkillInputs \cap DOMAIN PRICING,
        parts \in MessageInputs, paymentMandateId \in PaymentIds \cup {NoId} :
        \E gen \in EngineOutcomes(payments, paymentMandateId) :
          submit_task_step(taskId, skillId, parts, paymentMandateId, gen)
            /\ UNCHANGED <<last, executedMandates>>

SpecStore == Init /\ [][NextStore]_vars

\* The requests that write to the tables, at one clock value, among
\* createIntentMandate requests: `last` keeps the answer of the latest
\* createIntentMandate, so it tells whether an intent came before.
NextIntent ==
  \/ \E skillId \in IntentInputs : create_intent_mandate(skillId)
  \/ \E skillId \in SkillInputs \cap DOMAIN PRICING :
        create_cart_mandate_step(skillId, "help") /\ UNCHANGED last
  \/ \E cartId \in CartIds : process_payment_step(cartId, "none") /\ UNCHANGED last
  \/ \E taskId \in TaskIdInputs \cup {NoId}, skillId \in SkillInputs \cap DOMAIN PRICING,
        parts \in MessageInputs, paymentMandateId \in PaymentIds \cup {NoId} :
        \E gen \in EngineOutcomes(payments, paymentMandateId) :
          submit_task_step(taskId, skillId, parts, paymentMandateId, gen)
            /\ UNCHANGED <<last, executedMandates>>

SpecIntent == Init /\ [][NextIntent]_vars

\* A deployment with an edited config.py: the catalog price of a skill changes,
\* the rows of the database stay.
deploy_pricing(skill, price) ==
  /\ PRICING[skill].price # price
  /\ PRICING' = [PRICING EXCEPT ![skill].price = price]
  /\ UNCHANGED <<tasks, carts, payments, now, last, paidCarts, executedMandates, reqs,
               ap2, limiter>>

\* The requests that write to the tables, with skills of the catalog, over
\* deployments that change it.  The clock stands still here: what
\* create_cart_mandate and process_payment do with the time is a matter of
\* SpecStore.
NextCatalog ==
  \/ \E skillId \in SkillInputs \cap DOMAIN PRICING :
        create_cart_mandate_step(skillId, "help") /\ UNCHANGED last
  \/ \E cartId \in CartIds : process_payment_step(cartId, "none") /\ UNCHANGED last
  \/ \E taskId \in TaskIdInputs \cup {NoId}, skillId \in SkillInputs \cap DOMAIN PRICING,
        parts \in MessageInputs, paymentMandateId \in PaymentIds \cup {NoId} :
        \E gen \in EngineOutcomes(payments, paymentMandateId) :
          submit_task_step(taskId, skillId, parts, paymentMandateId, gen)
            /\ UNCHANGED <<last, executedMandates>>
  \/ \E skill \in SkillInputs \cap DOMAIN PRICING, price \in PriceInputs : deploy_pricing(skill, price)

SpecCatalog == Init /\ [][NextCatalog]_vars

(***************************************************************************)
(* process_payment one store call at a time (SpecConc): each server        *)
(* process w has its own Session; every repository call commits.          *)
(***************************************************************************)
\* Lines 332-346: read the cart row and check it.
pp_read(w, cartId) ==
  LET chk == check_cart(carts, cartId, now)
  IN
  /\ reqs[w].pc \in {"idle", "done"}
  /\ IF chk.code # 200
     THEN /\ reqs' = [reqs EXCEPT ![w] = [Idle EXCEPT !.pc = "done", !.cartId = cartId,
                                                      !.code = chk.code, !.detail = chk.detail]]
          /\ last' = [HTTPException("processPayment", chk.code, chk.detail) EXCEPT !.cartId = cartId]
     ELSE /\ reqs' = [reqs EXCEPT ![w] = [Idle EXCEPT !.pc = "create_payment", !.cartId = cartId,
                                                      !.cart_db = carts[cartId]]]
          /\ UNCHANGED last
  /\ UNCHANGED <<tasks, carts, payments, now, paidCarts, executedMandates, PRICING, ap2, limiter>>

\* Lines 348-385: payment_repo.create.
pp_create_payment(w) ==
  /\ reqs[w].pc = "create_payment"
  /\ \E payment_mandate_id \in uuid4(PaymentIds, payments) :
       /\ payments' = PaymentMandateRepository_create(payments,
                          payment_row(payment_mandate_id, reqs[w].cartId, reqs[w].cart_db))
       /\ reqs' = [reqs EXCEPT ![w].pc = "mark_used", ![w].payment_mandate_id = payment_mandate_id]
  /\ UNCHANGED <<tasks, carts, now, last, paidCarts, executedMandates, PRICING, ap2, limiter>>

\* Line 388: cart_repo.mark_used, its result dropped.
pp_mark_used(w) ==
  /\ reqs[w].pc = "mark_used"
  /\ carts' = CartMandateRepository_mark_used(carts, reqs[w].cartId)
  /\ reqs' = [reqs EXCEPT ![w].pc = "create_task"]
  /\ UNCHANGED <<tasks, payments, now, last, paidCarts, executedMandates, PRICING, ap2, limiter>>

\* Lines 390-421: task_repo.create and the success answer.
pp_create_task(w) ==
  /\ reqs[w].pc = "create_task"
  /\ \E task_id \in uuid4(TaskIds, tasks) :
       /\ tasks' = TaskRepository_create(tasks,
                       payment_task_row(task_id, reqs[w].cartId, reqs[w].payment_mandate_id, reqs[w].cart_db))
       /\ reqs' = [reqs EXCEPT ![w].pc = "done", ![w].task_id = task_id,
                                ![w].code = 200, ![w].detail = "ok"]
       /\ last' = [Response("processPayment", 200, "ok") EXCEPT
                      !.cartId = reqs[w].cartId, !.taskId = task_id,
                      !.paymentMandateId = reqs[w].payment_mandate_id,
                      !.skillId = reqs[w].cart_db.skill_id,
                      !.status = "payment_authorized"]
  /\ paidCarts' = paidCarts \cup {reqs[w].cartId}
  /\ UNCHANGED <<carts, payments, now, executedMandates, PRICING, ap2, limiter>>

NextConc ==
  \/ Tick
  \/ \E skillId \in SkillInputs : create_cart_mandate(skillId, "help")
  \/ \E w \in Workers, cartId \in CartIds : pp_read(w, cartId)
  \/ \E w \in Workers : pp_create_payment(w)
  \/ \E w \in Workers : pp_mark_used(w)
  \/ \E w \in Workers : pp_create_task(w)

SpecConc == Init /\ [][NextConc]_vars

\* A repository call of process_payment raises (the commit fails): the handler
\* leaves through `except Exception` with HTTPException(500); what earlier
\* repository calls committed stays in the database.
pp_store_fails(w) ==
  /\ reqs[w].pc \in {"create_payment", "mark_used", "create_task"}
  /\ reqs' = [reqs EXCEPT ![w].pc = "done", ![w].code = 500,
                           ![w].detail = "Payment processing failed"]
  /\ last' = [HTTPException("processPayment", 500, "Payment processing failed") EXCEPT
                 !.cartId = reqs[w].cartId]
  /\ UNCHANGED <<tasks, carts, payments, now, paidCarts, executedMandates, PRICING, ap2, limiter>>

\* SpecConc over a database whose commits can fail.
NextFault ==
  \/ Tick
  \/ \E skillId \in SkillInputs : create_cart_mandate(skillId, "help")
  \/ \E w \in Workers, cartId \in CartIds : pp_read(w, cartId)
  \/ \E w \in Workers : pp_create_payment(w)
  \/ \E w \in Workers : pp_mark_used(w)
  \/ \E w \in Workers : pp_create_task(w)
  \/ \E w \in Workers : pp_store_fails(w)

SpecFault == Init /\ [][NextFault]_vars

(***************************************************************************)
(* The paid branch of submit_task one step at a time (SpecEngine): the     *)
(* request is accepted, process_task commits `working`, calls the          *)
(* generation engine and, when the engine returns or raises, commits       *)
(* completed or failed.  The requests are the clients' steps and the       *)
(* engine's answer is the engine's step; the server's own step is          *)
(* pt_working.  The code sets no timeout on generate_content and starts no *)
(* background work, so there is no other step.                             *)
(***************************************************************************)
\* Line 435 when the caller sends no taskId: the uuid drawn for the request that
\* process w serves.  The paid branch stores no row under it, and no other call
\* draws it, so it is an id that no row has, now or later.
request_uuid(w) == MaxTasks + w

\* Lines 433-453: the params are valid and the payment is authorized; process_task is called.
pt_accept(w, taskId, skillId, paymentMandateId) ==
  /\ reqs[w].pc \in {"idle", "done"}
  /\ validate_skill(skillId)
  /\ payment_authorized(payments, paymentMandateId)
  /\ reqs' = [reqs EXCEPT ![w] =
                [Idle EXCEPT !.pc = "process_task",
                             !.task_id = IF taskId # NoId THEN taskId ELSE request_uuid(w),
                             !.payment_mandate_id = paymentMandateId]]
  /\ UNCHANGED <<tasks, carts, payments, now, last, paidCarts, executedMandates, PRICING, ap2, limiter>>

\* Lines 501-516: the row is updated to working, then generate_content is called.
pt_working(w) ==
  /\ reqs[w].pc = "process_task"
  /\ tasks' = TaskRepository_update(tasks, reqs[w].task_id, [status |-> "working"])
  /\ reqs' = [reqs EXCEPT ![w].pc = "generate_content"]
  /\ UNCHANGED <<carts, payments, now, last, paidCarts, executedMandates, PRICING, ap2, limiter>>

\* Lines 518-565: generate_content returns its text or raises; the row is updated to
\* completed with the result or to failed with the error.
pt_generated(w, gen) ==
  /\ reqs[w].pc = "generate_content"
  /\ tasks' = IF gen = "text"
              THEN TaskRepository_update(tasks, reqs[w].task_id, [status |-> "completed", result |-> gen])
              ELSE TaskRepository_update(tasks, reqs[w].task_id, [status |-> "failed", error |-> gen])
  /\ reqs' = [reqs EXCEPT ![w].pc = "done", ![w].code = IF gen = "text" THEN 200 ELSE 500]
  /\ UNCHANGED <<carts, payments, now, last, paidCarts, executedMandates, PRICING, ap2, limiter>>

NextEngine ==
  \/ \E skillId \in SkillInputs \cap DOMAIN PRICING :
        create_cart_mandate_step(skillId, "help") /\ UNCHANGED last
  \/ \E cartId \in CartIds : process_payment_step(cartId, "none") /\ UNCHANGED last
  \/ \E taskId \in TaskIdInputs \cup {NoId}, skillId \in SkillInputs \cap DOMAIN PRICING,
        parts \in MessageInputs :
        submit_task_step(taskId, skillId, parts, NoId, "text") /\ UNCHANGED <<last, executedMandates>>
  \/ \E w \in Workers, taskId \in TaskIdInputs \cup {NoId}, skillId \in SkillInputs,
        paymentMandateId \in PaymentIds : pt_accept(w, taskId, skillId, paymentMandateId)
  \/ \E w \in Workers : pt_working(w)
  \/ \E w \in Workers, gen \in GenOutcomes : pt_generated(w, gen)

\* The server runs the handler it has started: no await stands between the
\* call of process_task and the call of generate_content.
FairServer == \A w \in Workers : WF_vars(pt_working(w))

\* The generation engine answers every call of every request, with a text or
\* with an error.
FairEngine == \A w \in Workers : WF_vars(\E gen \in GenOutcomes : pt_generated(w, gen))

\* The engine may never answer.
SpecEngine == Init /\ [][NextEngine]_vars /\ FairServer

\* The engine answers.
SpecEngineAnswers == Init /\ [][NextEngine]_vars /\ FairServer /\ FairEngine

(***************************************************************************)
(* The two variants side by side (SpecVariants): two server programs.  A   *)
(* client sends each createCartMandate and processPayment request first to *)
(* agent_production.py and then to agent_ap2.py; the clock can move        *)
(* between the two, and it moves only while no stored cart expires.        *)
(***************************************************************************)
\* A taskDescription of 1001 characters.
ten_chars == "0123456789"
hundred_chars ==
  ten_chars \o ten_chars \o ten_chars \o ten_chars \o ten_chars \o
  ten_chars \o ten_chars \o ten_chars \o ten_chars \o ten_chars
too_long ==
  hundred_chars \o hundred_chars \o hundred_chars \o hundred_chars \o hundred_chars \o
  hundred_chars \o hundred_chars \o hundred_chars \o hundred_chars \o hundred_chars \o "x"

\* What a caller writes into taskDescription: a text that names no skill, one
\* that names a skill of the catalog, the empty text, and a JSON null.
DescriptionInputs == {"help", "market-research help", "", Null}

\* A method that is no key of handlers.
MethodInputs == {"cancelTask"}

\* The body of a request: the method and the params the handlers read.
ap2_request(method, skillId, taskDescription, cartId, taskId, parts, paymentMandateId) ==
  [method |-> method, skillId |-> skillId, taskDescription |-> taskDescription,
   cartId |-> cartId, taskId |-> taskId, parts |-> parts, paymentMandateId |-> paymentMandateId]

\* A createCartMandate request: agent_production.py answers it, and the same
\* request is on its way to agent_ap2.py.
both_create_cart_mandate(skillId, taskDescription) ==
  /\ ap2.inbox = <<>>
  /\ create_cart_mandate_bounded(carts, skillId)
  /\ ap2_create_cart_mandate_bounded(ap2, skillId)
  /\ LET r == create_cart_mandate_db(tasks, carts, payments, now, skillId, taskDescription)
     IN /\ tasks' = r.tasks
        /\ carts' = r.carts
        /\ payments' = r.payments
        /\ last' = r.resp
  /\ ap2' = [ap2 EXCEPT !.inbox =
               <<ap2_request("createCartMandate", skillId, taskDescription, NoId, NoId, <<>>, NoId)>>]
  /\ UNCHANGED <<now, paidCarts, executedMandates, reqs, PRICING, limiter>>

\* A processPayment request, likewise.
both_process_payment(cartId) ==
  /\ ap2.inbox = <<>>
  /\ process_payment_bounded(tasks, carts, payments, now, cartId)
  /\ ap2_process_payment_bounded(ap2, cartId)
  /\ LET r == process_payment_call(tasks, carts, payments, now, cartId)
     IN /\ tasks' = r.tasks
        /\ carts' = r.carts
        /\ payments' = r.payments
        /\ last' = r.resp
        /\ paidCarts' = IF r.resp.code = 200 THEN paidCarts \cup {cartId} ELSE paidCarts
  /\ ap2' = [ap2 EXCEPT !.inbox =
               <<ap2_request("processPayment", Null, Null, cartId, NoId, <<>>, NoId)>>]
  /\ UNCHANGED <<now, executedMandates, reqs, PRICING, limiter>>

\* agent_ap2.py receives the request that is on its way and handles it, at the
\* clock value of that moment.
ap2_receive ==
  /\ ap2.inbox # <<>>
  /\ ap2' = ap2_handle_a2a_request([ap2 EXCEPT !.inbox = <<>>], now, Head(ap2.inbox), "text")
  /\ UNCHANGED <<tasks, carts, payments, now, last, paidCarts, executedMandates, reqs,
                 PRICING, limiter>>

\* The clock moves on, and no stored cart is expired afterwards.
Tick_before_expiry ==
  /\ now < MaxTime
  /\ \A c \in DOMAIN carts : ~(carts[c].expires_at < now + 1)
  /\ now' = now + 1
  /\ UNCHANGED <<tasks, carts, payments, last, paidCarts, executedMandates, reqs, PRICING,
                 ap2, limiter>>

NextVariants ==
  \/ Tick_before_expiry
  \/ \E skillId \in SkillInputs, taskDescription \in DescriptionInputs :
        both_create_cart_mandate(skillId, taskDescription)
  \/ \E cartId \in CartIds : both_process_payment(cartId)
  \/ ap2_receive

SpecVariants == Init /\ [][NextVariants]_vars

(***************************************************************************)
(* agent_ap2.py alone (SpecAp2): the server handles the requests of its    *)
(* clients, of every method, one at a time; each request that calls the    *)
(* generation engine gets its own outcome.                                 *)
(***************************************************************************)
\* message.parts of a request to agent_ap2.py, which takes the parts as they
\* come: those of MessageInputs, and a text part whose text is null.
ap2_MessageInputs == MessageInputs \cup { <<[type |-> "text", text |-> Null]>> }

\* The requests of the clients.
ap2_RequestInputs ==
  { ap2_request("submitTask", skillId, Null, NoId, taskId, parts, paymentMandateId) :
      skillId \in SkillInputs, taskId \in TaskIds \cup {NoId}, parts \in ap2_MessageInputs,
      paymentMandateId \in PaymentIds \cup {NoId} }
  \cup { ap2_request("getTaskStatus", Null, Null, NoId, taskId, <<>>, NoId) : taskId \in TaskIds }
  \cup { ap2_request("sendMessage", Null, Null, NoId, taskId, parts, NoId) :
           taskId \in TaskIds, parts \in ap2_MessageInputs }
  \cup { ap2_request("createIntentMandate", skillId, Null, NoId, NoId, <<>>, NoId) :
           skillId \in IntentInputs \cup {""} }
  \cup { ap2_request("createCartMandate", skillId, taskDescription, NoId, NoId, <<>>, NoId) :
           skillId \in SkillInputs, taskDescription \in DescriptionInputs }
  \cup { ap2_request("processPayment", Null, Null, cartId, NoId, <<>>, NoId) : cartId \in CartIds }
  \cup { ap2_request(method, Null, Null, NoId, NoId, <<>>, NoId) : method \in MethodInputs }

\* The id spaces of the dicts still have the ids that the handler draws.
ap2_bounded(a, request) ==
  CASE request.method = "submitTask" -> ap2_submit_task_bounded(a, request.taskId, request.skillId)
    [] request.method = "createCartMandate" -> ap2_create_cart_mandate_bounded(a, request.skillId)
    [] request.method = "processPayment" -> ap2_process_payment_bounded(a, request.cartId)
    [] OTHER -> TRUE

\* One request, handled by handle_a2a_request.
ap2_serve(request, gen) ==
  /\ ap2_bounded(ap2, request)
  /\ ap2' = ap2_handle_a2a_request(ap2, now, request, gen)
  /\ UNCHANGED <<tasks, carts, payments, now, last, paidCarts, executedMandates, reqs,
                 PRICING, limiter>>

NextAp2 ==
  \/ Tick
  \/ \E request \in ap2_RequestInputs, gen \in GenOutcomes : ap2_serve(request, gen)

SpecAp2 == Init /\ [][NextAp2]_vars

(***************************************************************************)
(* The rate limiter alone (SpecRate): requests of the clients arrive at    *)
(* the middleware while time.time() moves on.                              *)
(***************************************************************************)
\* RateLimitMiddleware.dispatch for a request of client_ip; there is no await
\* between reading the deque and the append.
dispatch(client_ip) ==
  /\ LET r == dispatch_call(limiter.clients[client_ip], now)
     IN limiter' = [clients |-> [limiter.clients EXCEPT ![client_ip] = r.history],
                    admitted |-> IF r.code = 200
                                 THEN [limiter.admitted EXCEPT
                                         ![client_ip] = Append(limiter.admitted[client_ip], now)]
                                 ELSE limiter.admitted,
                    code |-> r.code, client |-> client_ip]
  /\ UNCHANGED <<tasks, carts, payments, now, last, paidCarts, executedMandates, reqs,
                 PRICING, ap2>>

NextRate ==
  \/ Tick
  \/ \E client_ip \in ClientAddresses : dispatch(client_ip)

SpecRate == Init /\ [][NextRate]_vars

(***************************************************************************)
(* Properties                                                              *)
(***************************************************************************)
\* The payments of cart c.
PaymentsOf(c) == { p \in DOMAIN payments : payments[p].cart_id = c }

\* The id names a stored payment with status authorized.
ResolvesAuthorized(p) ==
  p # NoId /\ p \in DOMAIN payments /\ payments[p].status = "authorized"

\* The rows of ts2 that are not in ts1 as they are.
Written(ts1, ts2) == { t \in DOMAIN ts2 : t \notin DOMAIN ts1 \/ ts2[t] # ts1[t] }

\* C1: after any sequence of createCartMandate, processPayment and submitTask
\* calls, each cart id is the cart_id of at most one stored PaymentMandate.
\* process_payment commits the PaymentMandate before it marks the cart used, so
\* a call that stops between the two commits (pp_store_fails) or a second call
\* that has read the cart before the first marked it leaves a cart that is
\* paid again.
C1_OnePaymentPerCart == \A c \in CartIds : Cardinality(PaymentsOf(c)) <= 1

\* C2: processPayment calls that run concurrently on one unused, unexpired
\* cart (each read the cart before any of them marked it): exactly one
\* returns success and every other one fails with CartAlreadyUsed.
C2_ExactlyOneSucceeds ==
  \A c \in CartIds :
    LET racers == { w \in Workers : reqs[w].pc = "done" /\ reqs[w].cartId = c /\ reqs[w].cart_db # <<>> }
    IN racers # {} =>
         /\ Cardinality({ w \in racers : reqs[w].code = 200 }) = 1
         /\ \A w \in racers : reqs[w].code # 200 =>
               (reqs[w].code = 400 /\ reqs[w].detail = "Cart already used")

\* C3: once a processPayment on a cart has returned success, every later
\* processPayment on that cart id fails with CartAlreadyUsed and creates
\* neither a PaymentMandate nor a task.
C3_PaidCartRejected ==
  \A c \in paidCarts :
    process_payment_bounded(tasks, carts, payments, now, c) =>
      LET r == process_payment_call(tasks, carts, payments, now, c)
      IN /\ r.resp.code = 400 /\ r.resp.detail = "Cart already used"
         /\ r.payments = payments
         /\ r.tasks = tasks

\* A processPayment has succeeded on a cart, which holds its one payment and
\* the one task of that payment, and the cart has expired since.
C3_Witness ==
  \E c \in paidCarts :
    /\ Cardinality(PaymentsOf(c)) = 1
    /\ \E t \in DOMAIN tasks : tasks[t].cart_id = c /\ tasks[t].status = "payment_authorized"
    /\ carts[c].expires_at < now
    /\ process_payment_call(tasks, carts, payments, now, c).resp.detail = "Cart already used"

\* C4: processPayment on an unused cart whose expires_at is earlier than the
\* current time fails with CartExpired, leaves the cart unused and creates no
\* PaymentMandate and no task.
C4_ExpiredCartRejected ==
  \A c \in DOMAIN carts :
    (carts[c].expires_at < now /\ ~carts[c].is_used
     /\ process_payment_bounded(tasks, carts, payments, now, c)) =>
      LET r == process_payment_call(tasks, carts, payments, now, c)
      IN /\ r.resp.code = 400 /\ r.resp.detail = "Cart expired"
         /\ r.carts = carts /\ ~r.carts[c].is_used
         /\ r.payments = payments
         /\ r.tasks = tasks

\* An unused cart has expired and processPayment on it answers Cart expired.
C4_Witness ==
  \E c \in DOMAIN carts :
    /\ carts[c].expires_at < now
    /\ ~carts[c].is_used
    /\ PaymentsOf(c) = {}
    /\ process_payment_call(tasks, carts, payments, now, c).resp.detail = "Cart expired"

\* C5: a submitTask call invokes the generation engine, or puts a task into
\* working, completed or failed, only when its paymentMandateId resolves to a
\* stored PaymentMandate with status authorized; a call without such a
\* reference leaves every row it writes in payment_required.
C5_ExecutionNeedsPayment ==
  \A taskId \in TaskIdInputs \cup {NoId}, skillId \in SkillInputs, parts \in MessageInputs,
     paymentMandateId \in PaymentIds \cup {NoId}, gen \in GenOutcomes :
    submit_task_bounded(tasks, taskId, skillId) =>
      LET r == submit_task_call(tasks, payments, taskId, skillId, parts, paymentMandateId, gen)
      IN \/ ResolvesAuthorized(paymentMandateId)
         \/ /\ ~r.executed /\ ~r.resp.engine
            /\ r.resp.statuses = <<>>
            /\ r.resp.status \notin {"working", "completed", "failed"}
            /\ \A t \in Written(tasks, r.tasks) : r.tasks[t].status = "payment_required"

\* A submitTask with an authorized mandate has run a stored task into failed,
\* while a task submitted without one waits in payment_required.
C5_Witness ==
  /\ \E t \in DOMAIN tasks :
       tasks[t].status = "failed" /\ tasks[t].error = "GenerationError"
  /\ \E t \in DOMAIN tasks :
       tasks[t].status = "payment_required"
  /\ \E p \in DOMAIN payments : ResolvesAuthorized(p)

\* C6: at most one submitTask call that references a given paymentMandateId
\* has a task executed by the generation engine: once a mandate has executed
\* a task, no submitTask with it executes another.
C6_MandateExecutesOnce ==
  \A taskId \in TaskIdInputs \cup {NoId}, skillId \in SkillInputs, parts \in MessageInputs,
     paymentMandateId \in executedMandates, gen \in GenOutcomes :
    submit_task_bounded(tasks, taskId, skillId) =>
      ~submit_task_call(tasks, payments, taskId, skillId, parts, paymentMandateId, gen).executed

\* C7: a paid submitTask whose taskId is omitted or not yet stored creates the
\* task row, so getTaskStatus on the returned taskId finds it in working,
\* completed or failed.
C7_PaidTaskIsStored ==
  (last.op = "submitTask" /\ last.engine /\ ~last.existed) =>
    /\ last.taskId \in DOMAIN tasks
    /\ get_task_status_call(tasks, last.taskId).resp.code = 200
    /\ get_task_status_call(tasks, last.taskId).resp.status \in {"working", "completed", "failed"}

\* C8: when submitTask with a paymentMandateId of an authorized
\* PaymentMandate returns a task, the returned status is working, completed
\* or failed, and the call leaves no task row in payment_required.
C8_PaidSkipsPaymentRequired ==
  \A taskId \in TaskIdInputs \cup {NoId}, skillId \in SkillInputs, parts \in MessageInputs,
     paymentMandateId \in PaymentIds, gen \in GenOutcomes :
    (ResolvesAuthorized(paymentMandateId) /\ submit_task_bounded(tasks, taskId, skillId)) =>
      LET r == submit_task_call(tasks, payments, taskId, skillId, parts, paymentMandateId, gen)
      IN r.resp.code = 200 =>
           /\ r.resp.status \in {"working", "completed", "failed"}
           /\ r.resp.taskId \in DOMAIN r.tasks => r.tasks[r.resp.taskId].status # "payment_required"
           /\ \A t \in Written(tasks, r.tasks) : r.tasks[t].status # "payment_required"

\* A task that an unpaid submitTask created has been completed by a paid
\* submitTask on its id.
C8_Witness ==
  \E t \in DOMAIN tasks :
    /\ tasks[t].payment_status = "pending"
    /\ tasks[t].status = "completed"
    /\ tasks[t].result = "text"
    /\ \E p \in DOMAIN payments : ResolvesAuthorized(p)

\* C9: submitTask with a valid skillId, a fresh task id and no
\* paymentMandateId creates exactly one task row, in payment_required at the
\* catalog price of the skill, does not invoke the engine, and returns
\* payment_required with next_steps listing createIntentMandate,
\* createCartMandate, processPayment in that order.
C9_UnpaidSubmit ==
  \A taskId \in (TaskIdInputs \cup {NoId}) \ DOMAIN tasks, skillId \in DOMAIN PRICING,
     parts \in MessageInputs, gen \in GenOutcomes :
    submit_task_bounded(tasks, taskId, skillId) =>
      LET r == submit_task_call(tasks, payments, taskId, skillId, parts, NoId, gen)
          id == r.resp.taskId
      IN /\ id \notin DOMAIN tasks
         /\ DOMAIN r.tasks = DOMAIN tasks \cup {id}
         /\ \A t \in DOMAIN tasks : r.tasks[t] = tasks[t]
         /\ r.tasks[id].status = "payment_required"
         /\ r.tasks[id].skill_id = skillId
         /\ r.tasks[id].price = PRICING[skillId].price
         /\ ~r.executed /\ ~r.resp.engine
         /\ r.resp.code = 200 /\ r.resp.status = "payment_required"
         /\ DOMAIN r.resp.next_steps = {"ap2_flow"}
         /\ DOMAIN r.resp.next_steps.ap2_flow = {"1", "2", "3"}
         /\ r.resp.next_steps.ap2_flow["1"] = "createIntentMandate"
         /\ r.resp.next_steps.ap2_flow["2"] = "createCartMandate"
         /\ r.resp.next_steps.ap2_flow["3"] = "processPayment"

\* An unpaid submitTask has stored its row at the catalog price, and a fresh
\* id is left for the next one.
C9_Witness ==
  /\ \E t \in DOMAIN tasks :
       /\ tasks[t].status = "payment_required" /\ tasks[t].payment_mandate_id = NoId
       /\ tasks[t].price = 25 /\ tasks[t].user_message = "hi"
  /\ uuid4(TaskIds, tasks) # {}

\* C10: once a task's stored status is completed or failed, no later
\* operation changes that task's status.
C10_TerminalIsFinal ==
  [][\A t \in DOMAIN tasks :
       tasks[t].status \in {"completed", "failed"} =>
         (t \in DOMAIN tasks' /\ tasks'[t].status = tasks[t].status)]_vars

\* C11: in every reachable state the status of every stored task is one
\* of payment_required, working, completed, failed.
C11_StatusInLifecycle ==
  \A t \in DOMAIN tasks :
    tasks[t].status \in {"payment_required", "working", "completed", "failed"}

\* C12: when the generation engine fails during the execution that a paid
\* submitTask starts, a task record with the task id of that call ends in status
\* failed with the error message stored on it.
C12_FailureIsStored ==
  \A taskId \in TaskIdInputs \cup {NoId}, skillId \in DOMAIN PRICING,
     parts \in MessageInputs, paymentMandateId \in PaymentIds :
    (ResolvesAuthorized(paymentMandateId) /\ submit_task_bounded(tasks, taskId, skillId)) =>
      LET r == submit_task_call(tasks, payments, taskId, skillId, parts,
                                paymentMandateId, "GenerationError")
          id == r.resp.taskId
      IN /\ id \in DOMAIN r.tasks
         /\ r.tasks[id].status = "failed"
         /\ r.tasks[id].error = "GenerationError"

\* C13: when the execution of a paid task fails in the generation engine, nothing
\* about the payment is rolled back: the carts and the payments are as before the
\* call, the cart of the mandate still is_used and the mandate still authorized.
C13_FailureKeepsPayment ==
  \A taskId \in TaskIdInputs \cup {NoId}, skillId \in DOMAIN PRICING,
     parts \in MessageInputs, paymentMandateId \in PaymentIds :
    (ResolvesAuthorized(paymentMandateId) /\ submit_task_bounded(tasks, taskId, skillId)) =>
      LET r == submit_task_db(tasks, carts, payments, taskId, skillId, parts,
                              paymentMandateId, "GenerationError")
      IN /\ r.executed /\ r.resp.engine
         /\ r.carts = carts
         /\ r.payments = payments
         /\ paymentMandateId \in DOMAIN r.payments
         /\ r.payments[paymentMandateId].status = "authorized"
         /\ r.carts[r.payments[paymentMandateId].cart_id].is_used

\* An execution under a payment mandate has failed: its task is stored as failed,
\* the mandate and its used cart are stored.
C13_Witness ==
  \E p \in DOMAIN payments, t \in DOMAIN tasks :
    /\ tasks[t].status = "failed"
    /\ tasks[t].payment_mandate_id = p
    /\ payments[p].status = "authorized"
    /\ carts[payments[p].cart_id].is_used

\* C14: a generation-engine failure during a paid submitTask is not returned to
\* the caller as an error: the call answers with a task result carrying its task
\* id, and getTaskStatus of that id shows the failure.
C14_FailureIsAbsorbed ==
  \A taskId \in TaskIdInputs \cup {NoId}, skillId \in DOMAIN PRICING,
     parts \in MessageInputs, paymentMandateId \in PaymentIds :
    (ResolvesAuthorized(paymentMandateId) /\ submit_task_bounded(tasks, taskId, skillId)) =>
      LET r == submit_task_call(tasks, payments, taskId, skillId, parts,
                                paymentMandateId, "GenerationError")
          status == get_task_status_call(r.tasks, r.resp.taskId).resp
      IN /\ r.resp.code = 200
         /\ r.resp.taskId # NoId
         /\ status.code = 200
         /\ status.status = "failed"

\* C15: createIntentMandate, createCartMandate and submitTask with a skillId that
\* is not in the catalog answer 400 Invalid skillId; the three tables are as before
\* the call and the generation engine is not called.
C15_UnknownSkillRejected ==
  \A skillId \in SkillInputs \ DOMAIN PRICING :
    /\ LET r == create_intent_mandate_call(skillId)
       IN r.resp.code = 400 /\ r.resp.detail = "Invalid skillId"
    /\ create_cart_mandate_bounded(carts, skillId) =>
         LET r == create_cart_mandate_db(tasks, carts, payments, now, skillId, "help")
         IN /\ r.resp.code = 400 /\ r.resp.detail = "Invalid skillId"
            /\ r.tasks = tasks /\ r.carts = carts /\ r.payments = payments
    /\ \A taskId \in TaskIdInputs \cup {NoId}, parts \in MessageInputs,
          paymentMandateId \in PaymentIds \cup {NoId}, gen \in GenOutcomes :
         submit_task_bounded(tasks, taskId, skillId) =>
           LET r == submit_task_db(tasks, carts, payments, taskId, skillId, parts,
                                   paymentMandateId, gen)
           IN /\ r.resp.code = 400 /\ r.resp.detail = "Invalid skillId"
              /\ r.tasks = tasks /\ r.carts = carts /\ r.payments = payments
              /\ ~r.executed /\ ~r.resp.engine

\* All three tables have rows, and a submitTask that names an authorized payment
\* and a skill outside the catalog is rejected.
C15_Witness ==
  /\ DOMAIN tasks # {} /\ DOMAIN carts # {}
  /\ \E p \in DOMAIN payments, skillId \in SkillInputs \ DOMAIN PRICING, parts \in MessageInputs :
       /\ ResolvesAuthorized(p)
       /\ submit_task_db(tasks, carts, payments, NoId, skillId, parts, p, "text").resp.code = 400

\* C16: getTaskStatus of a task id that has no task record (rows are never
\* deleted, so none was ever created) answers 404 Task not found, and
\* getTaskStatus of any id leaves the three tables as they were.
C16_UnknownTaskNotFound ==
  \A taskId \in TaskIds :
    LET r == get_task_status_db(tasks, carts, payments, taskId)
    IN /\ r.tasks = tasks /\ r.carts = carts /\ r.payments = payments
       /\ taskId \notin DOMAIN tasks =>
            (r.resp.code = 404 /\ r.resp.detail = "Task not found")
       /\ taskId \in DOMAIN tasks => r.resp.code = 200

\* Tasks, carts and payments are stored, a paid submitTask has run, and some task
\* id has no record.
C16_Witness ==
  /\ DOMAIN tasks # {} /\ DOMAIN carts # {} /\ DOMAIN payments # {}
  /\ \E t \in DOMAIN tasks : tasks[t].status \in {"completed", "failed"}
  /\ \E taskId \in TaskIds \ DOMAIN tasks :
       get_task_status_db(tasks, carts, payments, taskId).resp.code = 404

\* C17: the stored price and currency of a task never change after the task
\* record is created: every step, a request or a change of the catalog price,
\* keeps every stored task and leaves its price and currency as they were.
C17_PriceIsFixed ==
  [][\A t \in DOMAIN tasks :
       /\ t \in DOMAIN tasks'
       /\ tasks'[t].price = tasks[t].price
       /\ tasks'[t].currency = tasks[t].currency]_vars

\* An executed task whose stored price is no longer the catalog price of its
\* skill, next to a task priced from the changed catalog.
C17_Witness ==
  \E t, u \in DOMAIN tasks :
    /\ tasks[t].status \in {"completed", "failed"}
    /\ tasks[t].price # PRICING[tasks[t].skill_id].price
    /\ tasks[u].skill_id = tasks[t].skill_id
    /\ tasks[u].price # tasks[t].price

\* The taskDescription of a createCartMandate request: a text, the empty text,
\* a text of more than 1000 characters, or none.
TaskDescriptionInputs == DescriptionInputs \cup {too_long}

\* What C18 says of the call r at time t: one new cart is stored, with a new id,
\* is_used false, the catalog price now in force with the default currency as its
\* total and t plus the cart expiry window as expires_at; the stored carts, the
\* tasks and the payments are as before.
CartCreated(r, t, skillId, taskDescription) ==
  LET id == r.resp.cartId
  IN /\ r.resp.code = 200
     /\ id \notin DOMAIN carts
     /\ DOMAIN r.carts = DOMAIN carts \cup {id}
     /\ r.carts[id].skill_id = skillId
     /\ r.carts[id].task_description = taskDescription
     /\ r.carts[id].is_used = FALSE
     /\ py_float(r.carts[id].total_value) = PRICING[skillId].price
     /\ r.carts[id].total_currency = default_currency
     /\ r.carts[id].expires_at = t + cart_expiry_hours
     /\ \A c \in DOMAIN carts : r.carts[c] = carts[c]
     /\ r.tasks = tasks
     /\ r.payments = payments

\* C18 as stated: createCartMandate with a skill of the catalog, whatever the
\* taskDescription, at any time t of the clock, stores exactly one new cart with
\* the catalog price and the expiry of the call and changes nothing else.
C18_CartCreatedWhateverDescription ==
  \A skillId \in DOMAIN PRICING, t \in 0..MaxTime, taskDescription \in TaskDescriptionInputs :
    CartCreated(create_cart_mandate_db(tasks, carts, payments, t, skillId, taskDescription),
                t, skillId, taskDescription)

\* C18, amended: createCartMandate with a skill of the catalog and a
\* taskDescription of 1 to 1000 characters stores exactly one new cart as C18
\* says; with a taskDescription that is missing, empty or longer it answers 400
\* and the three tables are as before.
C18_CartCreated ==
  \A skillId \in DOMAIN PRICING, t \in 0..MaxTime, taskDescription \in TaskDescriptionInputs :
    LET r == create_cart_mandate_db(tasks, carts, payments, t, skillId, taskDescription)
    IN IF taskDescription # Null /\ Len(taskDescription) \in 1..1000
       THEN CartCreated(r, t, skillId, taskDescription)
       ELSE /\ r.resp.code = 400
            /\ r.tasks = tasks /\ r.carts = carts /\ r.payments = payments

\* A cart that createCartMandate stored at the price of a later deployment, not
\* the price of config.py, has been paid, so a cart, a payment and a task are
\* stored; a createCartMandate in this state stores a second cart under another id.
C18_Witness ==
  /\ DOMAIN tasks # {}
  /\ DOMAIN payments # {}
  /\ \E c \in DOMAIN carts :
       LET r == create_cart_mandate_db(tasks, carts, payments, now, carts[c].skill_id, "help")
       IN /\ carts[c].is_used
          /\ py_float(carts[c].total_value) # PRICING_config[carts[c].skill_id].price
          /\ r.resp.code = 200
          /\ r.resp.cartId # c
          /\ DOMAIN r.carts = {c, r.resp.cartId}
          /\ py_float(r.carts[r.resp.cartId].total_value) # py_float(carts[c].total_value)

\* C19: the amount and currency of the PaymentMandate that a successful
\* processPayment creates are the total stored in its cart, whatever the catalog
\* price of the skill is by then; every stored payment carries the total of its
\* cart, and no step changes the total of a stored cart.
C19_PaymentCopiesCartTotal ==
  /\ [](/\ \A p \in DOMAIN payments :
            /\ payments[p].cart_id \in DOMAIN carts
            /\ payments[p].amount = py_float(carts[payments[p].cart_id].total_value)
            /\ payments[p].currency = carts[payments[p].cart_id].total_currency
        /\ \A c \in CartIds :
            (process_payment_bounded(tasks, carts, payments, now, c)
               /\ check_cart(carts, c, now).code = 200) =>
              LET r == process_payment_call(tasks, carts, payments, now, c)
                  id == r.resp.paymentMandateId
              IN /\ r.resp.code = 200
                 /\ id \notin DOMAIN payments
                 /\ r.payments[id].cart_id = c
                 /\ r.payments[id].amount = py_float(carts[c].total_value)
                 /\ r.payments[id].currency = carts[c].total_currency)
  /\ [][\A c \in DOMAIN carts :
          /\ c \in DOMAIN carts'
          /\ carts'[c].total_value = carts[c].total_value
          /\ carts'[c].total_currency = carts[c].total_currency]_vars

\* A stored payment whose amount is the total of its cart and not the catalog price
\* now in force for the skill of the cart.
C19_Witness ==
  \E p \in DOMAIN payments :
    LET cart_db == carts[payments[p].cart_id]
    IN /\ payments[p].amount = py_float(cart_db.total_value)
       /\ payments[p].amount # PRICING[cart_db.skill_id].price
       /\ cart_db.is_used

\* C20: the three writes of one processPayment are atomic as a unit: whenever no
\* processPayment is in progress, also after one in which the store failed, every
\* stored PaymentMandate belongs to a cart that is_used and has its task, and
\* every used cart has a PaymentMandate.
C20_PaymentWritesAtomic ==
  (\A w \in Workers : reqs[w].pc \in {"idle", "done"}) =>
    /\ \A p \in DOMAIN payments :
         /\ carts[payments[p].cart_id].is_used
         /\ \E t \in DOMAIN tasks : tasks[t].payment_mandate_id = p
    /\ \A c \in DOMAIN carts : carts[c].is_used => PaymentsOf(c) # {}

\* C21: mark_used on a cart is a conditional update: it returns true and sets
\* is_used only when the cart is stored with is_used false; for a cart that is
\* missing or already used it returns false and leaves the carts as they are.
C21_MarkUsedIsConditional ==
  \A c \in CartIds :
    LET unused == c \in DOMAIN carts /\ ~carts[c].is_used
        after == CartMandateRepository_mark_used(carts, c)
    IN /\ mark_used_result(carts, c) = unused
       /\ unused => (after[c].is_used /\ \A d \in DOMAIN carts \ {c} : after[d] = carts[d])
       /\ ~unused => after = carts

\* Every cart of cs1 is a cart of cs2, and is used in cs2 if it is used in cs1.
Monotonic(cs1, cs2) ==
  \A c \in DOMAIN cs1 : c \in DOMAIN cs2 /\ (cs1[c].is_used => cs2[c].is_used)

\* C22: is_used of a cart is monotonic and no cart is deleted: the store's
\* mark_used and every handler, from every reachable state, leave each stored
\* cart stored and leave a used cart used (so the flag changes at most once), and
\* so does every step.
C22_UsedIsMonotonic ==
  /\ [](/\ \A c \in CartIds : Monotonic(carts, CartMandateRepository_mark_used(carts, c))
        /\ \A skillId \in SkillInputs :
             create_cart_mandate_bounded(carts, skillId) =>
               Monotonic(carts, create_cart_mandate_db(tasks, carts, payments, now, skillId, "help").carts)
        /\ \A c \in CartIds :
             process_payment_bounded(tasks, carts, payments, now, c) =>
               Monotonic(carts, process_payment_call(tasks, carts, payments, now, c).carts)
        /\ \A taskId \in TaskIdInputs \cup {NoId}, skillId \in SkillInputs, parts \in MessageInputs,
              paymentMandateId \in PaymentIds \cup {NoId}, gen \in GenOutcomes :
             submit_task_bounded(tasks, taskId, skillId) =>
               Monotonic(carts, submit_task_db(tasks, carts, payments, taskId, skillId, parts,
                                               paymentMandateId, gen).carts)
        /\ \A taskId \in TaskIds :
             Monotonic(carts, get_task_status_db(tasks, carts, payments, taskId).carts))
  /\ [][Monotonic(carts, carts')]_vars

\* A used cart that stayed used through the failed execution of its task.
C22_Witness ==
  \E c \in DOMAIN carts, t \in DOMAIN tasks :
    /\ carts[c].is_used
    /\ tasks[t].cart_id = c
    /\ tasks[t].status = "failed"

\* C23: a request whose method is none of the six handlers is answered with the
\* JSON-RPC error code -32601.
C23_UnknownMethodCode ==
  last.op = "invalidMethod" => last.code = -32601

\* C24: every task that enters working eventually reaches completed or failed,
\* also when the generation engine never answers.
C24_WorkingEnds ==
  \A t \in TaskIds :
    (t \in DOMAIN tasks /\ tasks[t].status = "working")
      ~> (t \in DOMAIN tasks /\ tasks[t].status \in {"completed", "failed"})

\* C25: the task that a successful processPayment created leaves
\* payment_authorized and reaches completed or failed, the engine answering,
\* without a further request.
C25_PaidTaskIsExecuted ==
  \A t \in TaskIds :
    (t \in DOMAIN tasks /\ tasks[t].status = "payment_authorized")
      ~> (t \in DOMAIN tasks /\ tasks[t].status \in {"completed", "failed"})

\* C26: sendMessage answers 404 Task not found when no task record has the id;
\* for a stored task in any status it calls the generation engine, whatever the
\* payment of the task, and it leaves the three tables as they were.
C26_SendMessagePassesThrough ==
  \A taskId \in TaskIds, parts \in MessageInputs, gen \in GenOutcomes :
    LET r == send_message_db(tasks, carts, payments, taskId, parts, gen)
    IN /\ r.tasks = tasks /\ r.carts = carts /\ r.payments = payments
       /\ taskId \notin DOMAIN tasks =>
            (r.resp.code = 404 /\ r.resp.detail = "Task not found" /\ ~r.resp.engine)
       /\ taskId \in DOMAIN tasks =>
            (r.resp.engine /\ (gen = "text" => r.resp.code = 200))

\* A task that still requires payment is stored and sendMessage on it is answered
\* by the engine, while sendMessage on an id without a record is answered 404.
C26_Witness ==
  /\ \E taskId \in TaskIds \ DOMAIN tasks :
       send_message_db(tasks, carts, payments, taskId, <<>>, "text").resp.code = 404
  /\ \E t \in DOMAIN tasks :
       /\ tasks[t].status = "payment_required"
       /\ tasks[t].payment_mandate_id = NoId
       /\ send_message_db(tasks, carts, payments, t, <<>>, "text").resp.code = 200
       /\ send_message_db(tasks, carts, payments, t, <<>>, "text").resp.engine

\* C27: createIntentMandate leaves the three tables as they were, and every
\* createCartMandate, processPayment and submitTask has the outcome, answer and
\* tables, after a createIntentMandate that it has without it; this in every
\* state, whether intents were made before it or not.
C27_IntentHasNoEffect ==
  /\ \A intentSkill \in IntentInputs :
       LET i == create_intent_mandate_db(tasks, carts, payments, intentSkill)
       IN i.tasks = tasks /\ i.carts = carts /\ i.payments = payments
  /\ \A skillId \in SkillInputs :
       create_cart_mandate_bounded(carts, skillId) =>
         LET without == create_cart_mandate_db(tasks, carts, payments, now, skillId, "help")
         IN \A intentSkill \in IntentInputs :
              LET i == create_intent_mandate_db(tasks, carts, payments, intentSkill)
              IN create_cart_mandate_db(i.tasks, i.carts, i.payments, now, skillId, "help")
                   = without
  /\ \A cartId \in CartIds :
       process_payment_bounded(tasks, carts, payments, now, cartId) =>
         LET without == process_payment_call(tasks, carts, payments, now, cartId)
         IN \A intentSkill \in IntentInputs :
              LET i == create_intent_mandate_db(tasks, carts, payments, intentSkill)
              IN process_payment_call(i.tasks, i.carts, i.payments, now, cartId) = without
  /\ \A taskId \in TaskIdInputs \cup {NoId}, skillId \in SkillInputs, parts \in MessageInputs,
        paymentMandateId \in PaymentIdInputs \cup {NoId} :
       submit_task_bounded(tasks, taskId, skillId) =>
         \A gen \in EngineOutcomes(payments, paymentMandateId) :
           LET without == submit_task_db(tasks, carts, payments, taskId, skillId, parts,
                                         paymentMandateId, gen)
           IN \A intentSkill \in IntentInputs :
                LET i == create_intent_mandate_db(tasks, carts, payments, intentSkill)
                IN submit_task_db(i.tasks, i.carts, i.payments, taskId, skillId, parts,
                                  paymentMandateId, gen) = without

\* An intent for a catalog skill was accepted, a cart of that skill is paid and
\* its task is stored; the next intent for the skill is accepted too.
C27_Witness ==
  /\ last.op = "createIntentMandate" /\ last.code = 200 /\ last.skillId \in DOMAIN PRICING
  /\ \E p \in DOMAIN payments :
       /\ carts[payments[p].cart_id].skill_id = last.skillId
       /\ carts[payments[p].cart_id].is_used
       /\ \E t \in DOMAIN tasks : tasks[t].payment_mandate_id = p
  /\ create_intent_mandate_db(tasks, carts, payments, last.skillId).resp.code = 200

\* C28: a processPayment that is refused, the cart missing, already used or
\* expired, leaves the tasks, the carts with their is_used flags and the
\* payments as they were; and it is refused for one of these three reasons.
C28_RefusedPaymentKeepsState ==
  \A cartId \in CartIds :
    LET r == process_payment_call(tasks, carts, payments, now, cartId)
    IN check_cart(carts, cartId, now).code # 200 =>
         /\ r.resp.code # 200
         /\ r.tasks = tasks /\ r.carts = carts /\ r.payments = payments
         /\ <<r.resp.code, r.resp.detail>> \in
              {<<404, "Cart not found or expired">>, <<400, "Cart already used">>,
               <<400, "Cart expired">>}

\* A cart that was never paid has expired and its payment is refused as expired.
C28_Witness ==
  \E cartId \in DOMAIN carts :
    /\ ~carts[cartId].is_used
    /\ carts[cartId].expires_at < now
    /\ process_payment_call(tasks, carts, payments, now, cartId).resp.detail = "Cart expired"

\* C29: a stored PaymentMandate is never changed and never deleted: every step
\* keeps every payment row with its cart_id, amount, currency and status; and
\* the status of every stored PaymentMandate is authorized.
C29_PaymentMandateImmutable ==
  /\ [](\A p \in DOMAIN payments : payments[p].status = "authorized")
  /\ [][\A p \in DOMAIN payments :
          /\ p \in DOMAIN payments'
          /\ payments'[p].cart_id = payments[p].cart_id
          /\ payments'[p].amount = payments[p].amount
          /\ payments'[p].currency = payments[p].currency
          /\ payments'[p].status = payments[p].status]_vars

\* A task has been executed to completion under a stored mandate, and the
\* mandate is there as processPayment wrote it.
C29_Witness ==
  \E p \in DOMAIN payments, t \in DOMAIN tasks :
    /\ tasks[t].status = "completed"
    /\ tasks[t].payment_mandate_id = p
    /\ payments[p] = payment_row(p, payments[p].cart_id, carts[payments[p].cart_id])

\* C30: a submitTask that executes under a stored PaymentMandate executes the
\* skill of the cart that this mandate paid: the service of its answer is the
\* skill_id of that cart.
C30_ExecutedSkillIsPaidSkill ==
  \A taskId \in TaskIdInputs \cup {NoId}, skillId \in DOMAIN PRICING,
     parts \in MessageInputs, paymentMandateId \in DOMAIN payments :
    submit_task_bounded(tasks, taskId, skillId) =>
      LET r == submit_task_db(tasks, carts, payments, taskId, skillId, parts,
                              paymentMandateId, "text")
      IN (r.executed /\ r.resp.code = 200) =>
           r.resp.skillId = carts[payments[paymentMandateId].cart_id].skill_id

\* C31: the answer of processPayment is decided in this order: no cart with the
\* id, 404 Cart not found; else the cart is used, 400 Cart already used, expired
\* or not; else expires_at is strictly earlier than the clock, 400 Cart expired;
\* else success, also at the very instant of expires_at.
C31_ChecksInOrder ==
  \A cartId \in CartIds :
    process_payment_bounded(tasks, carts, payments, now, cartId) =>
      LET r == process_payment_call(tasks, carts, payments, now, cartId)
          answer == <<r.resp.code, r.resp.detail>>
      IN IF cartId \notin DOMAIN carts THEN answer = <<404, "Cart not found or expired">>
         ELSE IF carts[cartId].is_used THEN answer = <<400, "Cart already used">>
         ELSE IF carts[cartId].expires_at < now THEN answer = <<400, "Cart expired">>
         ELSE /\ r.resp.code = 200
              /\ r.carts[cartId].is_used
              /\ DOMAIN r.payments # DOMAIN payments

\* The clock stands at the expires_at of an unused cart, and its payment succeeds.
C31_Witness ==
  \E cartId \in DOMAIN carts :
    /\ ~carts[cartId].is_used
    /\ carts[cartId].expires_at = now
    /\ process_payment_bounded(tasks, carts, payments, now, cartId)
    /\ process_payment_call(tasks, carts, payments, now, cartId).resp.code = 200

\* C32: a submitTask whose paymentMandateId names no stored authorized
\* PaymentMandate is not refused for that: with a task id that is new or omitted
\* it does what the same request without a payment reference does, it stores
\* the task in payment_required at the catalog price and does not call the
\* generation engine.
C32_UnknownMandateIsUnpaid ==
  \A taskId \in uuid4(TaskIds, tasks) \cup {NoId}, skillId \in SkillInputs \cap DOMAIN PRICING,
     parts \in MessageInputs, paymentMandateId \in PaymentIds, gen \in GenOutcomes :
    (~payment_authorized(payments, paymentMandateId)
     /\ submit_task_bounded(tasks, taskId, skillId)) =>
      LET r == submit_task_db(tasks, carts, payments, taskId, skillId, parts,
                              paymentMandateId, gen)
          unpaid == submit_task_db(tasks, carts, payments, taskId, skillId, parts, NoId, gen)
          id == r.resp.taskId
      IN /\ r.resp.code = 200 /\ r.resp.status = "payment_required"
         /\ ~r.executed /\ ~r.resp.engine
         /\ r.resp.next_steps = next_steps
         /\ id \in DOMAIN r.tasks \ DOMAIN tasks
         /\ r.tasks[id].status = "payment_required"
         /\ r.tasks[id].price = PRICING[skillId].price
         /\ r.tasks[id].payment_mandate_id = NoId
         /\ r.tasks = unpaid.tasks /\ r.carts = carts /\ r.payments = payments

\* A payment is stored, another payment id is not, a task id is free, and a
\* submitTask under the id that is not stored is answered payment_required.
C32_Witness ==
  /\ DOMAIN payments # {}
  /\ \E paymentMandateId \in PaymentIds \ DOMAIN payments :
       /\ submit_task_bounded(tasks, NoId, "quick-consult")
       /\ submit_task_db(tasks, carts, payments, NoId, "quick-consult", <<>>,
                         paymentMandateId, "text").resp.status = "payment_required"

\* C33: when no processPayment is in progress, every stored PaymentMandate
\* names a stored cart that is_used, and every cart that is_used has exactly
\* one PaymentMandate.
C33_OneMandatePerUsedCart ==
  (\A w \in Workers : reqs[w].pc \in {"idle", "done"}) =>
    /\ \A p \in DOMAIN payments :
         /\ payments[p].cart_id \in DOMAIN carts
         /\ carts[payments[p].cart_id].is_used
    /\ \A c \in DOMAIN carts : carts[c].is_used => Cardinality(PaymentsOf(c)) = 1

\* The tasks that carry the payment mandate p.
TasksOf(p) == { t \in DOMAIN tasks : tasks[t].payment_mandate_id = p }

\* C34: when no processPayment is in progress, every stored PaymentMandate is
\* the payment_mandate_id of exactly one stored task, and that task has the
\* cart of the mandate as cart_id and the cart total as price.
C34_OneTaskPerMandate ==
  (\A w \in Workers : reqs[w].pc \in {"idle", "done"}) =>
    \A p \in DOMAIN payments :
      /\ Cardinality(TasksOf(p)) = 1
      /\ \A t \in TasksOf(p) :
           /\ tasks[t].cart_id = payments[p].cart_id
           /\ tasks[t].price = py_float(carts[payments[p].cart_id].total_value)

\* C35: a submitTask that has no authorized payment reference and names a task id
\* that is stored fails with an error, 500 Task submission failed for a catalog
\* skill, and leaves the stored task, and every other row, as it was; every
\* task row is stored under its own id, so no two rows share one.
C35_StoredTaskIdRefused ==
  /\ \A t \in DOMAIN tasks : tasks[t].id = t
  /\ \A taskId \in DOMAIN tasks, skillId \in SkillInputs, parts \in MessageInputs,
        paymentMandateId \in PaymentIds \cup {NoId}, gen \in GenOutcomes :
       ~payment_authorized(payments, paymentMandateId) =>
         LET r == submit_task_db(tasks, carts, payments, taskId, skillId, parts,
                                 paymentMandateId, gen)
         IN /\ r.resp.code # 200
            /\ skillId \in DOMAIN PRICING =>
                 (r.resp.code = 500 /\ r.resp.detail = "Task submission failed")
            /\ ~r.executed /\ ~r.resp.engine
            /\ r.tasks = tasks /\ r.carts = carts /\ r.payments = payments

\* A completed task is stored with its result, and an unpaid submitTask that
\* names its id is refused.
C35_Witness ==
  \E t \in DOMAIN tasks :
    /\ tasks[t].status = "completed"
    /\ tasks[t].result # Null
    /\ submit_task_db(tasks, carts, payments, t, "quick-consult", <<>>, NoId, "text").resp.code
         = 500

\* C36: the result and the error of a stored task agree with its status: a
\* result is stored only on a completed task and an error only on a failed one.
C36_ResultAgreesWithStatus ==
  \A t \in DOMAIN tasks :
    /\ tasks[t].result # Null => tasks[t].status = "completed"
    /\ tasks[t].error # Null => tasks[t].status = "failed"

\* C37: on every createCartMandate and processPayment of a sequence in which no
\* cart expires, the in-memory variant and the production variant both succeed
\* or both fail.
C37_VariantsAgree ==
  (ap2.inbox = <<>> /\ last.op \in {"createCartMandate", "processPayment"}) =>
    /\ ap2.last.op = last.op
    /\ ap2_succeeded(ap2.last) <=> last.code = 200

\* The admissions of client c whose times lie in the window from s to s + period.
AdmittedWithin(c, s) ==
  { i \in DOMAIN limiter.admitted[c] :
      s <= limiter.admitted[c][i] /\ limiter.admitted[c][i] <= s + period }

\* C38: for each client address, no window of `period` seconds holds the
\* admission times of more than `calls` requests; and a request that is
\* rejected with 429 is not put into the client's history: it leaves the
\* history as the cleaning alone leaves it, and every later request is
\* answered as if the rejected one had not been made.
C38_RateLimitHolds ==
  \A c \in ClientAddresses :
    /\ \A s \in 0..MaxTime : Cardinality(AdmittedWithin(c, s)) <= calls
    /\ Len(limiter.clients[c]) <= calls
    /\ LET r == dispatch_call(limiter.clients[c], now)
       IN r.code = 429 =>
            /\ r.history = clean_history(limiter.clients[c], now)
            /\ Len(r.history) = calls
            /\ \A t \in now..(MaxTime + period + 1) :
                 dispatch_call(r.history, t) = dispatch_call(limiter.clients[c], t)

\* A request was rejected with 429, and its client has since been admitted
\* more than `calls` times in all, so a window has passed.
C38_Witness ==
  /\ limiter.code = 429
  /\ \E c \in ClientAddresses :
       /\ Len(limiter.admitted[c]) > calls
       /\ dispatch_call(limiter.clients[c], now).code = 429

====
